---- MODULE Spec2Model ----
(***************************************************************************)
(* Verification model of the cidsem indexing client                        *)
(* (src/src/cidsem/cidstore.py, src/src/cidsem/keys.py) against the        *)
(* in-memory store of src/tests/conftest.py, and of the predicate plugins  *)
(* (src/src/cidsem/plugins/base.py, src/src/cidsem/plugins/numeric.py).    *)
(*                                                                         *)
(* The 256-bit identifier E is kept as an integer made of four lanes; the  *)
(* lane width is scaled from 64 bits to LaneBits bits so that the whole    *)
(* value range can be enumerated.  Shifts are divisions by powers of two,  *)
(* masks are remainders, and xor / or are computed bit by bit.  The        *)
(* mantissa of a float is scaled from 53 bits to MantissaBits bits in the  *)
(* same way.                                                               *)
(***************************************************************************)
EXTENDS Integers, Sequences, FiniteSets, TLC

\* ------------------------------------------------------------------------
\* Bounds of the model
\* ------------------------------------------------------------------------
LaneBits == 2

MaxInserts == 2

MaxBatches == 3

MaxAttempts == 3

MaxResults == 2

\* Bits of the mantissa of a float (53 in the program).
MantissaBits == 3

\* Tasks that call set and delete on one plugin instance concurrently.
MaxTasks == 2

\* Distinct strings handed to E.from_str.
MaxStrings == 6

\* maxsize of the lru_cache of compute_hash_from_tuple (16384 in the program).
CacheMaxSize == 2

\* POST requests made to the API.
MaxRequests == 3

\* ------------------------------------------------------------------------
\* keys.py : the entity identifier E
\* ------------------------------------------------------------------------
LaneMod == 2 ^ LaneBits

EMod == LaneMod ^ 4

RECURSIVE BitXor(_, _)
BitXor(a, b) ==
    IF a = 0 THEN b
    ELSE IF b = 0 THEN a
    ELSE (((a % 2) + (b % 2)) % 2) + 2 * BitXor(a \div 2, b \div 2)

RECURSIVE BitOr(_, _)
BitOr(a, b) ==
    IF a = 0 THEN b
    ELSE IF b = 0 THEN a
    ELSE (IF a % 2 = 1 \/ b % 2 = 1 THEN 1 ELSE 0) + 2 * BitOr(a \div 2, b \div 2)

\* The result of a constructor call: ok = FALSE stands for a raised exception.
Raised == [ok |-> FALSE, val |-> 0]

Built(v) == [ok |-> TRUE, val |-> v]

\* E.from_int: asserts 0 <= id_ < (1 << 256), then cls(id_).
from_int(v) == IF 0 <= v /\ v < EMod THEN Built(v) ELSE Raised

\* E.__new__ on a list/tuple: length 4 is required, the lanes are shifted
\* into place and or-ed together, and the result goes through from_int.
E_tuple(t) ==
    IF Len(t) = 4
    THEN from_int(BitOr(BitOr(t[1] * (LaneMod ^ 3), t[2] * (LaneMod ^ 2)),
                        BitOr(t[3] * LaneMod, t[4])))
    ELSE Raised

\* E.__new__ on a plain integer: int.__new__ without any range check.
E_int(v) == Built(v)

\* A value handed to E(...): a tuple or list of integers (lanes), an E or a
\* plain integer (val), or an object of another type ("obj").
Shape(kind, lanes, val) == [kind |-> kind, lanes |-> lanes, val |-> val]

\* E.__new__: lists and tuples take the lane path, integers (and E, which is
\* an int) go to int.__new__, which raises TypeError on other objects.
E_new(r) ==
    CASE r.kind \in {"tuple", "list"} -> E_tuple(r.lanes)
      [] r.kind \in {"E", "int"} -> E_int(r.val)
      [] OTHER -> Raised

high(e) == (e \div (LaneMod ^ 3)) % LaneMod

high_mid(e) == (e \div (LaneMod ^ 2)) % LaneMod

low_mid_narrow(e) == (e \div LaneMod) % (LaneMod \div 2)

low_mid(e) == (e \div LaneMod) % LaneMod

low(e) == e % LaneMod

\* ------------------------------------------------------------------------
\* cidstore.py : key composer
\* ------------------------------------------------------------------------
create_compound_key_or(subject, predicate) ==
    E_tuple(<<BitOr(high(subject), high(predicate)),
              BitOr(high_mid(subject), high_mid(predicate)),
              BitOr(low_mid(subject), low_mid(predicate)),
              BitOr(low(subject), low(predicate))>>).val

create_compound_key(subject, predicate) ==
    E_tuple(<<BitXor(high(subject), high(predicate)),
              BitXor(high_mid(subject), high_mid(predicate)),
              BitXor(low_mid(subject), low_mid(predicate)),
              BitXor(low(subject), low(predicate))>>).val

create_reverse_key(predicate, obj) ==
    E_tuple(<<BitXor(high(obj), high(predicate)),
              BitXor(high_mid(obj), high_mid(predicate)),
              BitXor(low_mid(obj), low_mid(predicate)),
              BitXor(low(obj), low(predicate))>>).val

\* ------------------------------------------------------------------------
\* conftest.py : InMemoryCidstore (key tuple -> set of value tuples, kept
\* here as a set of <<key tuple, value tuple>> pairs)
\* ------------------------------------------------------------------------
\* _norm on an E-like object: the 4-tuple of its lanes.
Norm(e) == <<high(e), high_mid(e), low_mid(e), low(e)>>

\* Mutant: a store that keeps one value per key (dict assignment instead of
\* setdefault(...).add).
StoreInsert_overwrite(st, key, value) ==
    {x \in st : x[1] # Norm(key)} \cup {<<Norm(key), Norm(value)>>}

StoreInsert(st, key, value) == st \cup {<<Norm(key), Norm(value)>>}

StoreLookup(st, key) == {kv[2] : kv \in {x \in st : x[1] = Norm(key)}}

\* ------------------------------------------------------------------------
\* Inputs
\* ------------------------------------------------------------------------
\* Entities with bits in two different lanes; EntC is EntA xor EntB, so a
\* compound or reverse key can coincide with a plain entity key.
EntA == 1

EntB == LaneMod

EntC == LaneMod + 1

Entities == {EntA, EntB, EntC}

Triples == [s : {EntA, EntC}, p : {EntB, EntC}, o : Entities]

\* Which of the four store.insert calls of one insert_triple raises
\* (0: none of them).
FailPoints == 0 .. 4

\* ------------------------------------------------------------------------
\* cidstore.py : CidstoreClient.insert_triple
\* ------------------------------------------------------------------------
\* The i-th write of insert_triple, in source order, as <<key, value>>.
TripleWrite(t, i) ==
    CASE i = 1 -> <<create_compound_key(t.s, t.p), t.o>>
      [] i = 2 -> <<t.s, t.p>>
      [] i = 3 -> <<t.p, t.o>>
      [] i = 4 -> <<create_reverse_key(t.p, t.o), t.s>>

\* The body of the try block from its i-th store.insert on: the call that
\* raises leaves the block, the except clause turns it into False.
RECURSIVE insert_writes(_, _, _, _)
insert_writes(st, t, i, failAt) ==
    IF i > 4
    THEN [store |-> st, attempted |-> 1 .. 4, ret |-> TRUE, raised |-> FALSE]
    ELSE IF i = failAt
    THEN [store |-> st, attempted |-> 1 .. i, ret |-> FALSE, raised |-> FALSE]
    ELSE insert_writes(StoreInsert(st, TripleWrite(t, i)[1], TripleWrite(t, i)[2]),
                       t, i + 1, failAt)

\* Mutant: each write in a try of its own, so the writes after a failed one
\* are still made.
insert_triple_keeps_going(st, t, failAt) ==
    [store |-> st \cup {<<Norm(TripleWrite(t, i)[1]), Norm(TripleWrite(t, i)[2])>> :
                           i \in (1 .. 4) \ {failAt}},
     attempted |-> 1 .. 4, ret |-> failAt = 0, raised |-> FALSE]

\* Mutant: the writes of a failed call are undone before returning False.
insert_triple_rollback(st, t, failAt) ==
    IF insert_writes(st, t, 1, failAt).ret
    THEN insert_writes(st, t, 1, failAt)
    ELSE [insert_writes(st, t, 1, failAt) EXCEPT !.store = st]

insert_triple(st, t, failAt) == insert_writes(st, t, 1, failAt)

\* ------------------------------------------------------------------------
\* cidstore.py : CidstoreClient.batch_insert_triples
\* ------------------------------------------------------------------------
\* CidstoreClient.__init__: self.batch_size = 128.
DefaultBatchSize == 128

\* conftest.py batch_insert: every item dict is normalised and inserted.
StoreBatchInsert(st, items) ==
    st \cup {<<items[j].key, items[j].value>> : j \in DOMAIN items}

\* The element of a triple list at position i: a TripleRecord, cycling
\* through Triples.
TripleAt(i) ==
    [ok |-> TRUE,
     s |-> IF i % 2 = 0 THEN EntA ELSE EntC,
     p |-> IF (i \div 2) % 2 = 0 THEN EntB ELSE EntC,
     o |-> CASE (i \div 4) % 3 = 0 -> EntA
             [] (i \div 4) % 3 = 1 -> EntB
             [] OTHER -> EntC]

\* An element that is not a TripleRecord (reading its .subject raises).
NotATriple == [ok |-> FALSE, s |-> 0, p |-> 0, o |-> 0]

\* A list of n triples; with malformed its last element is not a TripleRecord.
TripleList(n, malformed) ==
    [i \in 1 .. n |-> IF malformed /\ i = n THEN NotATriple ELSE TripleAt(i)]

\* Numbers of triples around the batch boundaries of the default batch size.
TripleCounts ==
    {0, 1, 2} \cup {k * (DefaultBatchSize \div 4) + d : k \in 1 .. (MaxBatches - 1), d \in {0, 1}}

\* The i-th of the four {key, value} dicts appended for triple t; a dict of
\* the four lanes is kept as the tuple of its lanes, which is also what the
\* store's _norm makes of it.
BatchItem(t, i) ==
    [key |-> Norm(TripleWrite(t, i)[1]), value |-> Norm(TripleWrite(t, i)[2])]

\* The four items of every TripleRecord, tabulated once.
TripleRecords == {[ok |-> TRUE, s |-> t.s, p |-> t.p, o |-> t.o] : t \in Triples}

BatchItemTable == [t \in TripleRecords |-> [i \in 1 .. 4 |-> BatchItem(t, i)]]

\* Mutant: the last item of the last triple is left out.
Expand_short(triples) ==
    [j \in 1 .. (4 * Len(triples) - 1) |->
        BatchItemTable[triples[((j - 1) \div 4) + 1]][((j - 1) % 4) + 1]]

\* batch_items after the expansion loop: four items per triple, in order.
Expand(triples) ==
    [j \in 1 .. (4 * Len(triples)) |->
        BatchItemTable[triples[((j - 1) \div 4) + 1]][((j - 1) % 4) + 1]]

\* range(0, len(batch_items), self.batch_size)
BatchStarts(nitems, bs) == {i \in 0 .. nitems : i < nitems /\ i % bs = 0}

\* Mutant: a slice that ends one item early.
BatchSlice_short(items, i, bs) ==
    SubSeq(items, i + 1, (IF i + bs < Len(items) THEN i + bs ELSE Len(items)) - 1)

\* batch_items[i : i + self.batch_size]
BatchSlice(items, i, bs) ==
    SubSeq(items, i + 1, IF i + bs < Len(items) THEN i + bs ELSE Len(items))

BatchResult(success_count, failures) ==
    [success_count |-> success_count, failures |-> failures]

BatchFailure(i) == [batch_start |-> i, error |-> "store error"]

\* Mutant: the loop gives up at the first failed batch.
RECURSIVE batch_loop_abort(_, _, _, _, _, _, _, _)
batch_loop_abort(st, bs, items, i, failing, success_count, failures, calls) ==
    IF i >= Len(items)
    THEN [raised |-> FALSE, store |-> st, calls |-> calls,
          result |-> BatchResult(success_count, failures)]
    ELSE CHOOSE r \in
      {IF i \in failing
       THEN [raised |-> FALSE, store |-> st,
             calls |-> Append(calls, [batch_start |-> i, batch |-> batch, ok |-> FALSE]),
             result |-> BatchResult(success_count, Append(failures, BatchFailure(i)))]
       ELSE batch_loop_abort(StoreBatchInsert(st, batch), bs, items, i + bs, failing,
                             success_count + (Len(batch) \div 4), failures,
                             Append(calls, [batch_start |-> i, batch |-> batch, ok |-> TRUE]))
        : batch \in {BatchSlice(items, i, bs)}} : TRUE

\* The submission loop from batch start i on.  failing is the set of batch
\* starts whose store.batch_insert call raises; calls logs every
\* store.batch_insert call in the order it is made.  (batch is bound to the
\* slice of this iteration, as the loop variable is.)
RECURSIVE batch_loop(_, _, _, _, _, _, _, _)
batch_loop(st, bs, items, i, failing, success_count, failures, calls) ==
    IF i >= Len(items)
    THEN [raised |-> FALSE, store |-> st, calls |-> calls,
          result |-> BatchResult(success_count, failures)]
    ELSE CHOOSE r \in
      {IF i \in failing
       THEN batch_loop(st, bs, items, i + bs, failing, success_count,
                       Append(failures, BatchFailure(i)),
                       Append(calls, [batch_start |-> i, batch |-> batch, ok |-> FALSE]))
       ELSE batch_loop(StoreBatchInsert(st, batch), bs, items, i + bs, failing,
                       success_count + (Len(batch) \div 4), failures,
                       Append(calls, [batch_start |-> i, batch |-> batch, ok |-> TRUE]))
        : batch \in {BatchSlice(items, i, bs)}} : TRUE

\* raised = TRUE: an AttributeError left the expansion loop, before any
\* store call was made.
batch_insert_triples(st, bs, triples, failing) ==
    IF triples = <<>>
    THEN [raised |-> FALSE, store |-> st, calls |-> <<>>,
          result |-> BatchResult(0, <<>>)]
    ELSE IF \E j \in DOMAIN triples : ~triples[j].ok
    THEN [raised |-> TRUE, store |-> st, calls |-> <<>>,
          result |-> BatchResult(0, <<>>)]
    ELSE CHOOSE r \in
      {batch_loop(st, bs, batch_items, 0, failing, 0, <<>>, <<>>)
        : batch_items \in {Expand(triples)}} : TRUE

\* ------------------------------------------------------------------------
\* cidstore.py : robust_batch_insert_with_retry
\* ------------------------------------------------------------------------
\* PerformanceConfig: retry_backoff_factor = 2.0
BackoffFactor == 2

\* while attempt < config.retry_max_attempts
retry_loop_cond(attempt, max_attempts) == attempt < max_attempts

\* Mutant: the last allowed attempt is followed by a sleep and an increment.
should_retry_extra(attempt, max_attempts) == attempt < max_attempts

\* Mutant: a failed attempt is never followed by another one.
should_retry_never(attempt, max_attempts) == FALSE

\* Mutant: the caller gives up one attempt early.
should_retry_early(attempt, max_attempts) == attempt < max_attempts - 2

\* if attempt < config.retry_max_attempts - 1
should_retry(attempt, max_attempts) == attempt < max_attempts - 1

\* Mutant: the delay grows linearly.
backoff_sleep_linear(attempt) == BackoffFactor * attempt

\* time.sleep(config.retry_backoff_factor**attempt)
backoff_sleep(attempt) == BackoffFactor ^ attempt

\* Mutant: a retry passes on only the first triple of the list.
retry_triples_subset(triples, attempt) ==
    IF attempt = 0 THEN triples ELSE SubSeq(triples, 1, 1)

\* The list handed to batch_insert_triples at every attempt.
retry_triples(triples, attempt) == triples

\* The record returned after the loop.
AllRetriesFailed(last_error) ==
    BatchResult(0, <<[error |-> "All retries failed", cause |-> last_error]>>)

\* ------------------------------------------------------------------------
\* cidstore.py : read paths.  lookup is the store's answer per key:
\* [ok |-> FALSE] when store.lookup raises, else the list it returns.
\* ------------------------------------------------------------------------
Reply(results) == [ok |-> TRUE, results |-> results]

LookupRaised == [ok |-> FALSE, results |-> <<>>]

\* The conversion loop of query_by_subject_predicate; ok = FALSE when an
\* exception leaves the loop.
RECURSIVE sp_convert(_, _)
sp_convert(results, entities) ==
    IF results = <<>> THEN [ok |-> TRUE, out |-> entities]
    ELSE LET r == Head(results) IN
      IF r.kind = "tuple" /\ Len(r.lanes) = 4
      THEN IF E_new(r).ok
           THEN sp_convert(Tail(results), Append(entities, E_new(r).val))
           ELSE [ok |-> FALSE, out |-> entities]
      ELSE IF r.kind = "E"
      THEN sp_convert(Tail(results), Append(entities, r.val))
      ELSE sp_convert(Tail(results),
                      IF E_new(r).ok THEN Append(entities, E_new(r).val)
                      ELSE entities)

query_by_subject_predicate(lookup, subject, predicate) ==
    LET compound_key == create_compound_key(subject, predicate)
        reply == lookup[compound_key]
    IN IF ~reply.ok THEN <<>>
       ELSE IF sp_convert(reply.results, <<>>).ok
       THEN sp_convert(reply.results, <<>>).out
       ELSE <<>>

\* The conversion loop of query_predicates_for_subject.
RECURSIVE ps_convert(_, _)
ps_convert(results, entities) ==
    IF results = <<>> THEN [ok |-> TRUE, out |-> entities]
    ELSE LET r == Head(results) IN
      IF r.kind = "tuple" /\ Len(r.lanes) = 4
      THEN IF E_new(r).ok
           THEN ps_convert(Tail(results), Append(entities, E_new(r).val))
           ELSE [ok |-> FALSE, out |-> entities]
      ELSE IF r.kind = "E"
      THEN ps_convert(Tail(results), Append(entities, r.val))
      ELSE ps_convert(Tail(results),
                      IF E_new(r).ok THEN Append(entities, E_new(r).val)
                      ELSE entities)

query_predicates_for_subject(lookup, subject) ==
    LET reply == lookup[subject]
    IN IF ~reply.ok THEN <<>>
       ELSE IF ps_convert(reply.results, <<>>).ok
       THEN ps_convert(reply.results, <<>>).out
       ELSE <<>>

\* The conversion loop of query_subjects_by_object_predicate.
RECURSIVE op_convert(_, _)
op_convert(results, entities) ==
    IF results = <<>> THEN [ok |-> TRUE, out |-> entities]
    ELSE LET r == Head(results) IN
      IF r.kind = "tuple" /\ Len(r.lanes) = 4
      THEN IF E_new(r).ok
           THEN op_convert(Tail(results), Append(entities, E_new(r).val))
           ELSE [ok |-> FALSE, out |-> entities]
      ELSE IF r.kind = "E"
      THEN op_convert(Tail(results), Append(entities, r.val))
      ELSE op_convert(Tail(results),
                      IF E_new(r).ok THEN Append(entities, E_new(r).val)
                      ELSE entities)

query_subjects_by_object_predicate(lookup, obj, predicate) ==
    LET reverse_key == create_reverse_key(predicate, obj)
        reply == lookup[reverse_key]
    IN IF ~reply.ok THEN <<>>
       ELSE IF op_convert(reply.results, <<>>).ok
       THEN op_convert(reply.results, <<>>).out
       ELSE <<>>

\* InMemoryCidstore.lookup: list(vals), the stored value tuples of the key in
\* some iteration order of the set.
Orders(S) ==
    {f \in [1 .. Cardinality(S) -> S] : \A x \in S : \E i \in DOMAIN f : f[i] = x}

InMemoryLookups(st, key) ==
    {[k \in {key} |-> Reply(ord)] :
        ord \in Orders({Shape("tuple", v, 0) : v \in StoreLookup(st, key)})}

Range(f) == {f[i] : i \in DOMAIN f}

\* What a store may put in a lookup result: 4-lane tuples (the second with
\* a high lane that is out of range), a tuple of another length, an E, a
\* plain integer, lane lists, an object of another type.
ResultShapes ==
    {Shape("tuple", <<0, 0, 0, 1>>, 0),
     Shape("tuple", <<LaneMod, 0, 0, 0>>, 0),
     Shape("tuple", <<0, 1>>, 0),
     Shape("E", <<>>, EntB),
     Shape("int", <<>>, 3),
     Shape("list", <<0, 0, 1, 0>>, 0),
     Shape("list", <<LaneMod, 0, 0, 0>>, 0),
     Shape("obj", <<>>, 0)}

ResultLists == UNION {[1 .. n -> ResultShapes] : n \in 0 .. MaxResults}

\* The answers of an arbitrary store to one lookup.
OpaqueReplies == {LookupRaised} \cup {Reply(l) : l \in ResultLists}

\* ------------------------------------------------------------------------
\* Plugins (src/src/cidsem/plugins/base.py, src/src/cidsem/plugins/numeric.py)
\* ------------------------------------------------------------------------
\* A plugin instance is a record of its attributes.  Values are Python ints
\* (and one value that is not a number); the primary map is a function that
\* gives None to a subject that is not a key of the dict; the range index is
\* a function from its keys to their buckets.  A list whose order the code
\* leaves to set iteration is kept as a set, or as a bag where an element
\* can be repeated.

\* None, as dict.get gives it for a subject or a config key that is absent.
None == -1

Subjects == {"alice", "bob"}

\* A double holds every integer up to 2^53 exactly; the width of the
\* mantissa is scaled to MantissaBits.
FloatExact == 2 ^ MantissaBits

\* The smallest positive integer that no double holds.
BigVal == FloatExact + 1

\* A value that is neither an int nor a float.
NotANumber == -2

Values == {1, 2, FloatExact, BigVal}

SetArgs == Values \cup {NotANumber}

\* isinstance(object_value, (int, float))
IsNumeric(v) == v # NotANumber

RECURSIVE BitLength(_)
BitLength(v) == IF v = 0 THEN 0 ELSE 1 + BitLength(v \div 2)

\* float(str(v)) of a non-negative int v: str is lossless, float rounds to
\* the nearest double, ties to the even mantissa.
float_of_str(v) ==
    IF v <= FloatExact THEN v
    ELSE LET e == BitLength(v) - MantissaBits
             q == v \div (2 ^ e)
             r == v % (2 ^ e)
             half == 2 ^ (e - 1)
             up == r > half \/ (r = half /\ q % 2 = 1)
         IN  (IF up THEN q + 1 ELSE q) * (2 ^ e)

PluginClasses == {"NumericRangeDS", "DefaultDataStructure"}

\* The config dicts handed to configure: no bounds, bounds, and bounds that
\* configure rejects.  A key that is absent from the dict reads as None.
EmptyConfig == [min_value |-> None, max_value |-> None]

Configs ==
    {EmptyConfig,
     [min_value |-> 2, max_value |-> FloatExact],
     [min_value |-> 2, max_value |-> 2]}

EmptyIndex == [k \in {} |-> {}]

\* The instance after __init__.  configured tells whether the attributes
\* min_value and max_value exist: only configure creates them.
Fresh(cls) ==
    [cls |-> cls, configured |-> FALSE, config |-> EmptyConfig,
     min_value |-> None, max_value |-> None,
     data |-> [s \in Subjects |-> None], range_index |-> EmptyIndex]

\* What a call gives back: the instance after it, the exception it raised
\* ("none" when it returned) and the returned value.
Outcome(p, raised, ret) == [p |-> p, raised |-> raised, ret |-> ret]

\* DataStructurePlugin.configure and NumericRangeDS.configure: the
\* attributes are assigned before the bounds are compared.
configure(p, config) ==
    IF p.cls = "NumericRangeDS"
    THEN LET q == [p EXCEPT !.config = config,
                            !.min_value = config.min_value,
                            !.max_value = config.max_value,
                            !.configured = TRUE]
         IN  IF /\ config.min_value # None
                /\ config.max_value # None
                /\ config.min_value >= config.max_value
             THEN Outcome(q, "ValueError", None)
             ELSE Outcome(q, "none", None)
    ELSE Outcome([p EXCEPT !.config = config], "none", None)

get(p, subject) == p.data[subject]

\* Mutant: the bucket is deleted whoever else is in it.
Discard_bucket(ri, k, subject) == [j \in DOMAIN ri \ {k} |-> ri[j]]

\* range_index[old_value].discard(subject), and the bucket is deleted when
\* it becomes empty.
Discard(ri, k, subject) ==
    IF ri[k] \ {subject} = {}
    THEN [j \in DOMAIN ri \ {k} |-> ri[j]]
    ELSE [ri EXCEPT ![k] = @ \ {subject}]

\* The three steps of set under the lock.
set_remove_old_keeps(p, subject) == p

set_remove_old(p, subject) ==
    LET old_value == p.data[subject]
    IN  IF old_value # None /\ old_value \in DOMAIN p.range_index
        THEN [p EXCEPT !.range_index = Discard(p.range_index, old_value, subject)]
        ELSE p

set_write_first(p, subject, v) ==
    IF p.data[subject] = None THEN [p EXCEPT !.data[subject] = v] ELSE p

set_write(p, subject, v) == [p EXCEPT !.data[subject] = v]

set_add_index(p, subject, v) ==
    LET ri == IF v \in DOMAIN p.range_index
              THEN p.range_index
              ELSE [k \in DOMAIN p.range_index \cup {v} |->
                        IF k = v THEN {} ELSE p.range_index[k]]
    IN  [p EXCEPT !.range_index = [ri EXCEPT ![v] = @ \cup {subject}]]

\* The validation of NumericRangeDS.set, made before the lock is taken:
\* the exception it raises, "none" when the value is accepted.
set_validate_exclusive(p, v) ==
    IF ~IsNumeric(v) THEN "TypeError"
    ELSE IF ~p.configured THEN "AttributeError"
    ELSE IF p.min_value # None /\ v <= p.min_value THEN "ValueError"
    ELSE IF p.max_value # None /\ v >= p.max_value THEN "ValueError"
    ELSE "none"

set_validate(p, v) ==
    IF ~IsNumeric(v) THEN "TypeError"
    ELSE IF ~p.configured THEN "AttributeError"
    ELSE IF p.min_value # None /\ v < p.min_value THEN "ValueError"
    ELSE IF p.max_value # None /\ v > p.max_value THEN "ValueError"
    ELSE "none"

NumericRangeDS_set(p, subject, v) ==
    IF set_validate(p, v) # "none"
    THEN Outcome(p, set_validate(p, v), None)
    ELSE Outcome(set_add_index(set_write(set_remove_old(p, subject), subject, v),
                               subject, v),
                 "none", None)

\* The two steps of delete under the lock.
delete_data(p, subject) ==
    IF p.data[subject] = None THEN p ELSE [p EXCEPT !.data[subject] = None]

delete_index(p, subject, old_value) ==
    IF old_value \in DOMAIN p.range_index
    THEN [p EXCEPT !.range_index = Discard(p.range_index, old_value, subject)]
    ELSE p

NumericRangeDS_delete(p, subject) ==
    LET old_value == p.data[subject]
    IN  IF old_value = None
        THEN Outcome(p, "none", FALSE)
        ELSE Outcome(delete_index(delete_data(p, subject), subject, old_value),
                     "none", TRUE)

DefaultDataStructure_set(p, subject, v) ==
    Outcome([p EXCEPT !.data[subject] = v], "none", None)

DefaultDataStructure_delete(p, subject) ==
    IF p.data[subject] # None
    THEN Outcome([p EXCEPT !.data[subject] = None], "none", TRUE)
    ELSE Outcome(p, "none", FALSE)

plugin_set(p, subject, v) ==
    IF p.cls = "NumericRangeDS"
    THEN NumericRangeDS_set(p, subject, v)
    ELSE DefaultDataStructure_set(p, subject, v)

plugin_delete(p, subject) ==
    IF p.cls = "NumericRangeDS"
    THEN NumericRangeDS_delete(p, subject)
    ELSE DefaultDataStructure_delete(p, subject)

\* find_subjects: the bucket of the value; the base class does not
\* implement it.
find_subjects(p, v) ==
    IF p.cls # "NumericRangeDS" THEN Outcome(p, "NotImplementedError", {})
    ELSE Outcome(p, "none",
                 IF v \in DOMAIN p.range_index THEN p.range_index[v] ELSE {})

\* find_subjects_in_range: the buckets of the keys of irange(min_val,
\* max_val), both ends included, appended to one list; the list is kept as
\* the number of times each subject is in it.
NoSubjects == [s \in Subjects |-> 0]

find_subjects_in_range_open(p, min_val, max_val) ==
    IF min_val > max_val THEN Outcome(p, "ValueError", NoSubjects)
    ELSE Outcome(p, "none",
                 [s \in Subjects |->
                     Cardinality({k \in DOMAIN p.range_index :
                                     /\ min_val <= k /\ k < max_val
                                     /\ s \in p.range_index[k]})])

find_subjects_in_range(p, min_val, max_val) ==
    IF min_val > max_val THEN Outcome(p, "ValueError", NoSubjects)
    ELSE Outcome(p, "none",
                 [s \in Subjects |->
                     Cardinality({k \in DOMAIN p.range_index :
                                     /\ min_val <= k /\ k <= max_val
                                     /\ s \in p.range_index[k]})])

RECURSIVE Gcd(_, _)
Gcd(a, b) == IF b = 0 THEN a ELSE Gcd(b, a % b)

\* len(data) / len(range_index) as a fraction in lowest terms, 0 when the
\* index is empty.
Ratio(n, d) == IF d = 0 THEN <<0, 1>> ELSE <<n \div Gcd(n, d), d \div Gcd(n, d)>>

\* The metrics of NumericRangeDS.health_check; the base class reports none.
health_check(p) ==
    IF p.cls # "NumericRangeDS" THEN [status |-> "ok", plugin |-> p.cls,
                                      config |-> p.config]
    ELSE [status |-> "ok", plugin |-> p.cls, config |-> p.config,
          metrics |->
              [subject_count |-> Cardinality({s \in Subjects : p.data[s] # None}),
               unique_values |-> Cardinality(DOMAIN p.range_index),
               avg_subjects_per_value |->
                   Ratio(Cardinality({s \in Subjects : p.data[s] # None}),
                         Cardinality(DOMAIN p.range_index))]]

\* The keys of a SortedDict in the order of its items().
RECURSIVE Ascending(_)
Ascending(S) ==
    IF S = {} THEN <<>>
    ELSE LET m == CHOOSE x \in S : \A y \in S : x <= y
         IN  <<m>> \o Ascending(S \ {m})

\* str(value) of a key: the decimal text, from which the value can be read
\* back exactly.
str(v) == [text |-> v]

\* snapshot: the class name, the config and the data; NumericRangeDS writes
\* its map and its index with the keys as text, DefaultDataStructure its
\* map.
snapshot(p) ==
    IF p.cls = "NumericRangeDS"
    THEN [plugin_class |-> p.cls, config |-> p.config,
          data |-> [subjects |-> p.data,
                    range_index |->
                        [i \in 1 .. Cardinality(DOMAIN p.range_index) |->
                            <<str(Ascending(DOMAIN p.range_index)[i]),
                              p.range_index[Ascending(DOMAIN p.range_index)[i]]>>]]]
    ELSE [plugin_class |-> p.cls, config |-> p.config, data |-> p.data]

\* The loop of NumericRangeDS.restore_snapshot: each item of the saved
\* index is assigned to the key float(value_str), a later item replacing an
\* earlier one with the same key.
RECURSIVE restore_index(_, _, _)
restore_index(ri, items, i) ==
    IF i > Len(items) THEN ri
    ELSE LET value == float_of_str(items[i][1].text)
         IN  restore_index([k \in DOMAIN ri \cup {value} |->
                               IF k = value THEN items[i][2] ELSE ri[k]],
                           items, i + 1)

restore_snapshot_unchecked(p, snap) ==
    Outcome([p EXCEPT !.config = snap.config], "none", None)

restore_snapshot(p, snap) ==
    IF snap.plugin_class # p.cls THEN Outcome(p, "ValueError", None)
    ELSE IF p.cls = "NumericRangeDS"
    THEN Outcome([p EXCEPT !.config = snap.config,
                           !.data = snap.data.subjects,
                           !.range_index =
                               restore_index(EmptyIndex, snap.data.range_index, 1)],
                 "none", None)
    ELSE Outcome([p EXCEPT !.config = snap.config, !.data = snap.data],
                 "none", None)

\* ------------------------------------------------------------------------
\* Tasks and the lock of a plugin instance
\* ------------------------------------------------------------------------
Tasks == 1 .. MaxTasks

NoTask == 0

\* What the tasks pass to set: a value inside every configured range, one
\* below the configured minimum, and one that is not a number.
TaskValues == {1, 2, NotANumber}

TaskArgs == TaskValues \cup {None}

\* asyncio.Lock.locked()
locked_never(lock) == FALSE

locked(lock) == lock # NoTask

NoTasks ==
    [pc |-> [t \in Tasks |-> "idle"], op |-> [t \in Tasks |-> "none"],
     subject |-> [t \in Tasks |-> ""], v |-> [t \in Tasks |-> None],
     raised |-> [t \in Tasks |-> "none"], old |-> [t \in Tasks |-> None],
     lock |-> NoTask, order |-> <<>>]

\* ------------------------------------------------------------------------
\* Inputs of the E constructors
\* ------------------------------------------------------------------------
\* Integers handed to E and to from_int: the whole range and one value on
\* either side of it.
RawInts == (-1) .. EMod

\* The lanes handed to E as a tuple or a list; LaneMod is a lane that does
\* not fit its width.
LaneTuples == [1 .. 4 -> 0 .. LaneMod]

\* uuid4().int and uuid5(...).int are 128-bit integers: two lanes.
UuidInts == 0 .. (LaneMod ^ 2 - 1)

\* E(id_) where the annotation of id_ is enforced at run time.
E_int_constrained(v) == IF 0 <= v /\ v < EMod THEN E_int(v) ELSE Raised

\* from_str: cls(uuid5(NAMESPACE_DNS, value).int)
from_str(id_) == E_int(id_)

KeySubjects == {0, EntA, EntB, EntC, EMod - 1}

KeyProbes == {0, EntA, EntB, EntC, EMod - 2, EMod - 1}

NoKey ==
    [op |-> "none", arg |-> 0, lanes |-> <<>>, res |-> Raised,
     rebuilt_done |-> FALSE, rebuilt |-> Raised,
     s |-> 0, p1 |-> 0, p2 |-> 0, k1 |-> 0, k2 |-> 0, k1_again |-> 0]

\* ------------------------------------------------------------------------
\* keys.py: the reverse lookup kept by E.from_str
\* ------------------------------------------------------------------------
\* The distinct source strings handed to from_str, numbered.
SourceStrings == 1 .. MaxStrings

\* uuid5(NAMESPACE_DNS, value).int: a fixed 128-bit integer per string;
\* distinct strings of the model get distinct integers.
uuid5(value) == (7 * value + 3) % (LaneMod ^ 2)

\* _kv_store.setdefault(id_, value)
kv_setdefault(kv, id_, value) ==
    IF id_ \in DOMAIN kv THEN kv
    ELSE [k \in DOMAIN kv \cup {id_} |-> IF k = id_ THEN value ELSE kv[k]]

\* ------------------------------------------------------------------------
\* hashcache.py: the hash of a triple and its LRU cache
\* ------------------------------------------------------------------------
\* _tuple_from_triple: the four lanes of subject, predicate and object.
tuple_from_triple(t) ==
    <<high(t.s), high_mid(t.s), low_mid(t.s), low(t.s),
      high(t.p), high_mid(t.p), low_mid(t.p), low(t.p),
      high(t.o), high_mid(t.o), low_mid(t.o), low(t.o)>>

\* struct.pack(">Q", int(x) & ((1 << 64) - 1)) for x in key: one word per
\* lane, in order.
pack(key) == [i \in DOMAIN key |-> key[i] % LaneMod]

RECURSIVE Mix(_, _, _)
Mix(b, i, acc) ==
    IF i > Len(b) THEN acc ELSE Mix(b, i + 1, (acc * 5 + b[i] + i) % EMod)

\* hashlib.sha256(b).digest(): a fixed function of the packed words; the
\* model mixes the words into a number of the digest's width.  The digest
\* has as many bits as an E, 4 * LaneBits; it is kept as the sequence of its
\* 4-bit groups, most significant first (64 of them for SHA-256).
sha256(b) ==
    [i \in 1 .. LaneBits |-> (Mix(b, 1, 1) \div (16 ^ (LaneBits - i))) % 16]

HexChars == <<"0", "1", "2", "3", "4", "5", "6", "7",
              "8", "9", "a", "b", "c", "d", "e", "f">>

\* h.hex()
hex(h) == [i \in DOMAIN h |-> HexChars[h[i] + 1]]

\* int.from_bytes(h, "big")
RECURSIVE int_from_bytes(_)
int_from_bytes(h) ==
    IF h = <<>> THEN 0
    ELSE h[Len(h)] + 16 * int_from_bytes(SubSeq(h, 1, Len(h) - 1))

\* The body of compute_hash_from_tuple.
compute_hash_from_tuple(key) ==
    [hexdig |-> hex(sha256(pack(key))),
     e |-> from_int(int_from_bytes(sha256(pack(key))))]

\* Mutant: only the lanes of subject and predicate are compared.
cache_find_loose(cache, key) ==
    {i \in DOMAIN cache : SubSeq(cache[i].key, 1, 8) = SubSeq(key, 1, 8)}

\* The entries of the cache whose key equals the argument.
cache_find(cache, key) == {i \in DOMAIN cache : cache[i].key = key}

\* A call of the lru_cache wrapper.  The cache is kept most recently used
\* first.  A hit gives the stored result and moves the entry to the front; a
\* miss computes the result, stores it and drops the least recently used
\* entry when the cache is full.
lru_cache_call(cache, key) ==
    IF cache_find(cache, key) # {}
    THEN LET i == CHOOSE j \in cache_find(cache, key) :
                      \A k \in cache_find(cache, key) : j <= k
         IN  [hit |-> TRUE, result |-> cache[i].result,
              cache |-> <<cache[i]>> \o SubSeq(cache, 1, i - 1)
                                     \o SubSeq(cache, i + 1, Len(cache))]
    ELSE LET r == compute_hash_from_tuple(key)
             c == <<[key |-> key, result |-> r]>> \o cache
         IN  [hit |-> FALSE, result |-> r,
              cache |-> SubSeq(c, 1, IF Len(c) < CacheMaxSize
                                     THEN Len(c) ELSE CacheMaxSize)]

get_triple_hash(cache, t) == lru_cache_call(cache, tuple_from_triple(t))

\* ------------------------------------------------------------------------
\* wal.py and api/app.py: the request log and the POST endpoints
\* ------------------------------------------------------------------------
Endpoints == {"candidate_factoids", "validation_events", "backlog_items"}

\* The field of the body and of the record that holds the id.
IdField(endpoint) ==
    IF endpoint = "candidate_factoids" THEN "factoid_id"
    ELSE IF endpoint = "validation_events" THEN "event_id"
    ELSE "item_id"

RecordType(endpoint) ==
    IF endpoint = "candidate_factoids" THEN "candidate_factoid"
    ELSE IF endpoint = "validation_events" THEN "validation_event"
    ELSE "backlog_item"

\* None where a string is expected: a header that was not sent, a field a
\* dict does not have.
NoneStr == "None"

IdempotencyKeys == {"abc-123", "k-2"}

\* request.headers.get("Idempotency-Key")
HeaderValues == IdempotencyKeys \cup {"", NoneStr}

BodyIds == {"id-1", "id-2"}

\* What the handler finds when it validates the body: the body conforms,
\* it does not, or the schema file is missing.  The schema of candidate
\* factoids is loaded with the module, the other two by the handler.
Checks(endpoint) ==
    IF endpoint = "candidate_factoids"
    THEN {"valid", "invalid"}
    ELSE {"valid", "invalid", "schema_missing"}

\* bool(key)
truthy(key) == key # NoneStr /\ key # ""

\* WAL.append: one JSON line at the end of the file.
WAL_append(w, record) == Append(w, record)

NoRecord == [type |-> "none", id_field |-> "none", id |-> NoneStr,
             idempotency_key |-> NoneStr]

\* Mutant: the lookup finds nothing.
find_by_idempotency_key_none(w, key) == NoRecord

\* WAL.find_by_idempotency_key: the first record with the key, or None.
find_by_idempotency_key(w, key) ==
    IF \E i \in DOMAIN w : w[i].idempotency_key = key
    THEN w[CHOOSE i \in DOMAIN w :
              /\ w[i].idempotency_key = key
              /\ \A j \in DOMAIN w : w[j].idempotency_key = key => i <= j]
    ELSE NoRecord

\* found.get(field)
record_get(record, field) ==
    IF record.id_field = field THEN record.id ELSE NoneStr

\* post_candidate_factoid, post_validation_event and post_backlog_item:
\* the lookup of the key, the validation of the body, the append.
post(w, endpoint, key, body_id, check) ==
    IF truthy(key) /\ find_by_idempotency_key(w, key) # NoRecord
    THEN [status |-> "duplicate",
          id |-> record_get(find_by_idempotency_key(w, key), IdField(endpoint)),
          wal |-> w]
    ELSE IF check = "schema_missing"
    THEN [status |-> "500", id |-> NoneStr, wal |-> w]
    ELSE IF check = "invalid"
    THEN [status |-> "400", id |-> NoneStr, wal |-> w]
    ELSE [status |-> "accepted", id |-> body_id,
          wal |-> WAL_append(w, [type |-> RecordType(endpoint),
                                 id_field |-> IdField(endpoint),
                                 id |-> body_id,
                                 idempotency_key |-> key])]

\* ------------------------------------------------------------------------
\* State
\* ------------------------------------------------------------------------
VARIABLES
    store,      \* InMemoryCidstore._store
    inserted,   \* triples whose insert_triple returned True (history)
    ncalls,     \* number of insert_triple calls made so far
    last,       \* the last insert_triple call and its outcome
    batch_size, \* CidstoreClient.batch_size
    blast,      \* the last batch_insert_triples call and its outcome
    retry,      \* the robust_batch_insert_with_retry call in progress
    qlast,      \* the last query call on an arbitrary store and its outcome
    plug,       \* the live plugin instance
    snap,       \* the snapshot taken last
    copy,       \* a second plugin instance, the target of a restore
    plast,      \* the last plugin call and its outcome
    conc,       \* the tasks that call set and delete on plug concurrently
    ekey,       \* the last construction of an E or of a compound key
    hcache,     \* the lru_cache of compute_hash_from_tuple, most recent first
    hlast,      \* the last get_triple_hash call and what it returned
    wal,        \* the records of the WAL file, in order
    alast,      \* the last POST request, its response, and history
    kv_store    \* keys._kv_store

clientVars == <<store, inserted, ncalls, last, batch_size, blast, retry, qlast>>

pluginVars == <<plug, snap, copy, plast, conc>>

auxVars == <<hcache, hlast, wal, alast, kv_store>>

vars == <<store, inserted, ncalls, last, batch_size, blast, retry, qlast,
          plug, snap, copy, plast, conc, ekey,
          hcache, hlast, wal, alast, kv_store>>

NoTriple == [s |-> 0, p |-> 0, o |-> 0]

NoCall == [called |-> FALSE, t |-> NoTriple, failAt |-> 0, attempted |-> {},
           ret |-> FALSE, raised |-> FALSE, before |-> {}]

NoBatchCall == [called |-> FALSE, n |-> 0, malformed |-> FALSE, failing |-> {},
                raised |-> FALSE, calls |-> <<>>, result |-> BatchResult(0, <<>>)]

NoAttempt == [arg |-> <<>>, raised |-> FALSE, calls |-> <<>>,
              result |-> BatchResult(0, <<>>)]

\* pc: "idle" before the call, "loop" at the head of the while loop, "done"
\* after the return.  outcomes, sleeps, nattempts and the store_* counters
\* are history of the call; att is the latest batch_insert_triples call.
NoRetry == [pc |-> "idle", n |-> 0, malformed |-> FALSE, max_attempts |-> 0,
            attempt |-> 0, last_error |-> "None", nattempts |-> 0,
            outcomes |-> <<>>, sleeps |-> <<>>, att |-> NoAttempt,
            result |-> BatchResult(0, <<>>),
            store_calls |-> 0, store_fails |-> 0, fails_first |-> TRUE]

NoQuery == [method |-> "none", reply |-> LookupRaised, out |-> <<>>]

NoSnapshot == [plugin_class |-> "none", config |-> EmptyConfig,
               data |-> [s \in Subjects |-> None]]

NoPluginCall ==
    [op |-> "none", subject |-> "", arg |-> None, lo |-> 0, hi |-> 0,
     raised |-> "none", deleted |-> FALSE, found |-> {}, counts |-> NoSubjects,
     before |-> Fresh("NumericRangeDS")]

NoHashCall == [called |-> FALSE, t |-> NoTriple, hit |-> FALSE,
               ret |-> [hexdig |-> <<>>, e |-> Raised], evicted |-> FALSE]

NoRequest == [n |-> 0, endpoint |-> "none", key |-> NoneStr, body_id |-> NoneStr,
              check |-> "valid", status |-> "none", id |-> NoneStr,
              before |-> <<>>, sent_before |-> {}, endpoints |-> {}]

InitAux ==
    /\ hcache = <<>>
    /\ hlast = NoHashCall
    /\ wal = <<>>
    /\ alast = NoRequest
    /\ kv_store = [k \in {} |-> 0]

InitClient ==
    /\ store = {}
    /\ inserted = {}
    /\ ncalls = 0
    /\ last = NoCall
    /\ batch_size = DefaultBatchSize
    /\ blast = NoBatchCall
    /\ retry = NoRetry
    /\ qlast = NoQuery

Init ==
    /\ InitClient
    /\ plug = Fresh("NumericRangeDS")
    /\ snap = NoSnapshot
    /\ copy = Fresh("NumericRangeDS")
    /\ plast = NoPluginCall
    /\ conc = NoTasks
    /\ ekey = NoKey
    /\ InitAux

InsertTriple ==
    /\ ncalls < MaxInserts
    /\ \E t \in Triples, failAt \in FailPoints :
         LET r == insert_triple(store, t, failAt) IN
           /\ store' = r.store
           /\ inserted' = IF r.ret THEN inserted \cup {t} ELSE inserted
           /\ last' = [called |-> TRUE, t |-> t, failAt |-> failAt,
                       attempted |-> r.attempted, ret |-> r.ret,
                       raised |-> r.raised, before |-> store]
    /\ ncalls' = ncalls + 1
    /\ UNCHANGED <<pluginVars, ekey, auxVars, batch_size, blast, retry, qlast>>

NextInsert == InsertTriple

SpecInsert == Init /\ [][NextInsert]_vars

\* One batch_insert_triples call on a list of n triples; the store fails the
\* batch_insert calls of the batches in failing.
BatchInsertTriples ==
    /\ \E n \in TripleCounts, malformed \in BOOLEAN :
         /\ malformed => n > 0
         /\ \E failing \in SUBSET BatchStarts(4 * n, batch_size) :
              LET r == batch_insert_triples(store, batch_size,
                                            TripleList(n, malformed), failing) IN
                /\ store' = r.store
                /\ blast' = [called |-> TRUE, n |-> n, malformed |-> malformed,
                             failing |-> failing, raised |-> r.raised,
                             calls |-> r.calls, result |-> r.result]
    /\ UNCHANGED <<pluginVars, ekey, auxVars, inserted, ncalls, last, batch_size, retry, qlast>>

NextBatch == BatchInsertTriples

SpecBatch == Init /\ [][NextBatch]_vars

\* robust_batch_insert_with_retry is entered: attempt = 0, last_error = None.
RetryStart ==
    /\ retry.pc = "idle"
    /\ \E n \in TripleCounts, malformed \in BOOLEAN, max_attempts \in (-1) .. MaxAttempts :
         /\ malformed => n > 0
         /\ retry' = [retry EXCEPT !.pc = "loop", !.n = n, !.malformed = malformed,
                                   !.max_attempts = max_attempts]
    /\ UNCHANGED <<pluginVars, ekey, auxVars, store, inserted, ncalls, last, batch_size, blast, qlast>>

FailedCalls(calls) == {k \in DOMAIN calls : ~calls[k].ok}

\* One iteration of the while loop: a batch_insert_triples call, then the
\* return, the sleep and increment, or the break.
RetryAttempt ==
    /\ retry.pc = "loop"
    /\ retry_loop_cond(retry.attempt, retry.max_attempts)
    /\ \E failing \in SUBSET BatchStarts(4 * retry.n, batch_size) :
         /\ retry.malformed => failing = {}
         /\ \E arg \in {retry_triples(TripleList(retry.n, retry.malformed), retry.attempt)} :
            \E r \in {batch_insert_triples(store, batch_size, arg, failing)} :
            \E outcome \in {IF r.raised THEN "raised"
                            ELSE IF r.result.failures = <<>> THEN "ok" ELSE "partial"} :
            \E again \in {outcome # "ok" /\ should_retry(retry.attempt, retry.max_attempts)} :
            \E error \in {IF r.raised THEN "AttributeError" ELSE retry.last_error} :
              /\ store' = r.store
              /\ retry' = [retry EXCEPT
                    !.pc = IF again THEN "loop" ELSE "done",
                    !.attempt = IF again THEN @ + 1 ELSE @,
                    !.last_error = error,
                    !.nattempts = @ + 1,
                    !.outcomes = Append(@, outcome),
                    !.sleeps = IF again THEN Append(@, backoff_sleep(retry.attempt)) ELSE @,
                    !.att = [arg |-> arg, raised |-> r.raised, calls |-> r.calls,
                             result |-> r.result],
                    !.result = IF again THEN @
                               ELSE IF r.raised THEN AllRetriesFailed(error)
                               ELSE r.result,
                    !.store_calls = @ + Len(r.calls),
                    !.store_fails = @ + Cardinality(FailedCalls(r.calls)),
                    !.fails_first =
                        /\ @
                        /\ \A k \in FailedCalls(r.calls) :
                              /\ retry.store_calls = retry.store_fails
                              /\ \A j \in 1 .. k : ~r.calls[j].ok]
    /\ UNCHANGED <<pluginVars, ekey, auxVars, inserted, ncalls, last, batch_size, blast, qlast>>

\* The loop condition is false: the code after the loop returns the
\* "All retries failed" record.
RetryLoopExit ==
    /\ retry.pc = "loop"
    /\ ~retry_loop_cond(retry.attempt, retry.max_attempts)
    /\ retry' = [retry EXCEPT !.pc = "done",
                              !.result = AllRetriesFailed(retry.last_error)]
    /\ UNCHANGED <<pluginVars, ekey, auxVars, store, inserted, ncalls, last, batch_size, blast, qlast>>

NextRetry == RetryStart \/ RetryAttempt \/ RetryLoopExit

SpecRetry == Init /\ [][NextRetry]_vars

\* The call is synchronous: once entered it runs until it returns.
SpecRetryFair == SpecRetry /\ WF_vars(NextRetry)

\* The three read paths against a store that answers the lookup with any
\* reply; a behaviour follows one query call.
QueryBySubjectPredicate ==
    /\ qlast.method = "none"
    /\ \E subject \in Entities, predicate \in Entities, reply \in OpaqueReplies :
         qlast' = [method |-> "query_by_subject_predicate", reply |-> reply,
                   out |-> query_by_subject_predicate(
                              [k \in {create_compound_key(subject, predicate)} |-> reply],
                              subject, predicate)]
    /\ UNCHANGED <<pluginVars, ekey, auxVars, store, inserted, ncalls, last, batch_size, blast, retry>>

QueryPredicatesForSubject ==
    /\ qlast.method = "none"
    /\ \E subject \in Entities, reply \in OpaqueReplies :
         qlast' = [method |-> "query_predicates_for_subject", reply |-> reply,
                   out |-> query_predicates_for_subject(
                              [k \in {subject} |-> reply], subject)]
    /\ UNCHANGED <<pluginVars, ekey, auxVars, store, inserted, ncalls, last, batch_size, blast, retry>>

QuerySubjectsByObjectPredicate ==
    /\ qlast.method = "none"
    /\ \E obj \in Entities, predicate \in Entities, reply \in OpaqueReplies :
         qlast' = [method |-> "query_subjects_by_object_predicate", reply |-> reply,
                   out |-> query_subjects_by_object_predicate(
                              [k \in {create_reverse_key(predicate, obj)} |-> reply],
                              obj, predicate)]
    /\ UNCHANGED <<pluginVars, ekey, auxVars, store, inserted, ncalls, last, batch_size, blast, retry>>

NextQuery ==
    QueryBySubjectPredicate \/ QueryPredicatesForSubject \/ QuerySubjectsByObjectPredicate

SpecQuery == Init /\ [][NextQuery]_vars

\* ------------------------------------------------------------------------
\* Plugin calls made one after the other
\* ------------------------------------------------------------------------
\* Each action records the call and the instance before it in plast.
PluginCall(op, subject, arg, lo, hi, out, before) ==
    [op |-> op, subject |-> subject, arg |-> arg, lo |-> lo, hi |-> hi,
     raised |-> out.raised,
     deleted |-> (op = "delete" /\ out.ret = TRUE),
     found |-> IF op = "find_subjects" THEN out.ret ELSE {},
     counts |-> IF op = "find_subjects_in_range" THEN out.ret ELSE NoSubjects,
     before |-> before]

InitPlugin ==
    /\ InitClient
    /\ plug \in {Fresh(c) : c \in PluginClasses}
    /\ copy \in {Fresh(c) : c \in PluginClasses}
    /\ snap = NoSnapshot
    /\ plast = [NoPluginCall EXCEPT !.before = plug]
    /\ conc = NoTasks
    /\ ekey = NoKey
    /\ InitAux

PluginConfigure ==
    \E config \in Configs :
        \E out \in {configure(plug, config)} :
            /\ plug' = out.p
            /\ plast' = PluginCall("configure", "", None, 0, 0, out, plug)
            /\ UNCHANGED <<clientVars, auxVars, snap, copy, conc, ekey>>

PluginSet ==
    \E subject \in Subjects, v \in SetArgs :
        \E out \in {plugin_set(plug, subject, v)} :
            /\ plug' = out.p
            /\ plast' = PluginCall("set", subject, v, 0, 0, out, plug)
            /\ UNCHANGED <<clientVars, auxVars, snap, copy, conc, ekey>>

PluginDelete ==
    \E subject \in Subjects :
        \E out \in {plugin_delete(plug, subject)} :
            /\ plug' = out.p
            /\ plast' = PluginCall("delete", subject, None, 0, 0, out, plug)
            /\ UNCHANGED <<clientVars, auxVars, snap, copy, conc, ekey>>

PluginFindSubjects ==
    \E v \in Values :
        \E out \in {find_subjects(plug, v)} :
            /\ plast' = PluginCall("find_subjects", "", v, 0, 0, out, plug)
            /\ UNCHANGED <<clientVars, auxVars, plug, snap, copy, conc, ekey>>

PluginFindSubjectsInRange ==
    /\ plug.cls = "NumericRangeDS"
    /\ \E lo \in Values, hi \in Values :
        \E out \in {find_subjects_in_range(plug, lo, hi)} :
            /\ plast' = PluginCall("find_subjects_in_range", "", None, lo, hi,
                                   out, plug)
            /\ UNCHANGED <<clientVars, auxVars, plug, snap, copy, conc, ekey>>

NextPlugin ==
    \/ PluginConfigure
    \/ PluginSet
    \/ PluginDelete
    \/ PluginFindSubjects
    \/ PluginFindSubjectsInRange

SpecPlugin == InitPlugin /\ [][NextPlugin]_vars

\* ------------------------------------------------------------------------
\* Snapshots
\* ------------------------------------------------------------------------
\* snapshot() of the live instance or of the other instance.
TakeSnapshot ==
    \E src \in {plug, copy} :
        /\ snap' = snapshot(src)
        /\ plast' = PluginCall("snapshot", "", None, 0, 0,
                               Outcome(src, "none", None), src)
        /\ UNCHANGED <<clientVars, auxVars, plug, copy, conc, ekey>>

\* restore_snapshot on a newly made instance of either class.
RestoreFresh ==
    /\ snap.plugin_class # "none"
    /\ \E c \in PluginClasses :
        \E out \in {restore_snapshot(Fresh(c), snap)} :
            /\ copy' = out.p
            /\ plast' = PluginCall("restore_fresh", "", None, 0, 0, out, Fresh(c))
            /\ UNCHANGED <<clientVars, auxVars, plug, snap, conc, ekey>>

\* restore_snapshot on the live instance.
RestoreLive ==
    /\ snap.plugin_class # "none"
    /\ \E out \in {restore_snapshot(plug, snap)} :
            /\ plug' = out.p
            /\ plast' = PluginCall("restore_live", "", None, 0, 0, out, plug)
            /\ UNCHANGED <<clientVars, auxVars, snap, copy, conc, ekey>>

\* The instance is filled before the first snapshot is taken and is left
\* alone by set, delete and configure afterwards.
SnapshotSetup ==
    /\ snap.plugin_class = "none"
    /\ (PluginConfigure \/ PluginSet \/ PluginDelete)

NextSnapshot ==
    \/ SnapshotSetup
    \/ TakeSnapshot
    \/ RestoreFresh
    \/ RestoreLive

SpecSnapshot == InitPlugin /\ [][NextSnapshot]_vars

\* ------------------------------------------------------------------------
\* Concurrent set and delete tasks on one plugin instance
\* ------------------------------------------------------------------------
\* Every task makes one call.  Its steps are the statements of the call;
\* the steps of different tasks interleave freely, and only the lock keeps
\* them apart.  NumericRangeDS takes _update_lock and DefaultDataStructure
\* takes _lock in set and in delete alike, so an instance has one lock in
\* use, conc.lock: the task that holds it, NoTask when it is free.
\* conc.order lists the tasks in the order in which they took the lock.
AllIdle == \A t \in Tasks : conc.pc[t] = "idle"

TaskSetup ==
    /\ AllIdle
    /\ PluginConfigure

TaskCall(t) ==
    /\ conc.pc[t] = "idle"
    /\ \E op \in {"set", "delete"}, subject \in Subjects, v \in TaskArgs :
        /\ op = "delete" => v = None
        /\ op = "set" => v # None
        /\ \E rejected \in {IF op = "set" /\ plug.cls = "NumericRangeDS"
                            THEN set_validate(plug, v) ELSE "none"} :
            conc' = [conc EXCEPT !.pc[t] = IF rejected = "none" THEN "acquire"
                                           ELSE "done",
                                 !.op[t] = op,
                                 !.subject[t] = subject,
                                 !.v[t] = v,
                                 !.raised[t] = rejected]
    /\ UNCHANGED <<clientVars, auxVars, plug, snap, copy, plast, ekey>>

\* async with the lock: the task goes on when the lock is free.
TaskAcquire(t) ==
    /\ conc.pc[t] = "acquire"
    /\ ~locked(conc.lock)
    /\ conc' = [conc EXCEPT !.lock = t,
                            !.order = Append(@, t),
                            !.pc[t] = IF conc.op[t] = "delete" THEN "delete_data"
                                      ELSE IF plug.cls = "NumericRangeDS"
                                      THEN "remove_old" ELSE "write"]
    /\ UNCHANGED <<clientVars, auxVars, plug, snap, copy, plast, ekey>>

TaskRemoveOld(t) ==
    /\ conc.pc[t] = "remove_old"
    /\ plug' = set_remove_old(plug, conc.subject[t])
    /\ conc' = [conc EXCEPT !.pc[t] = "write"]
    /\ UNCHANGED <<clientVars, auxVars, snap, copy, plast, ekey>>

TaskWrite(t) ==
    /\ conc.pc[t] = "write"
    /\ plug' = set_write(plug, conc.subject[t], conc.v[t])
    /\ conc' = [conc EXCEPT !.pc[t] = IF plug.cls = "NumericRangeDS"
                                      THEN "add_index" ELSE "release"]
    /\ UNCHANGED <<clientVars, auxVars, snap, copy, plast, ekey>>

TaskAddIndex(t) ==
    /\ conc.pc[t] = "add_index"
    /\ plug' = set_add_index(plug, conc.subject[t], conc.v[t])
    /\ conc' = [conc EXCEPT !.pc[t] = "release"]
    /\ UNCHANGED <<clientVars, auxVars, snap, copy, plast, ekey>>

\* delete reads the value and returns False when there is none; else it
\* removes the subject from the map and then from the index.
TaskDeleteData(t) ==
    /\ conc.pc[t] = "delete_data"
    /\ plug' = delete_data(plug, conc.subject[t])
    /\ conc' = [conc EXCEPT !.old[t] = plug.data[conc.subject[t]],
                            !.pc[t] = IF /\ plug.cls = "NumericRangeDS"
                                         /\ plug.data[conc.subject[t]] # None
                                      THEN "delete_index" ELSE "release"]
    /\ UNCHANGED <<clientVars, auxVars, snap, copy, plast, ekey>>

TaskDeleteIndex(t) ==
    /\ conc.pc[t] = "delete_index"
    /\ plug' = delete_index(plug, conc.subject[t], conc.old[t])
    /\ conc' = [conc EXCEPT !.pc[t] = "release"]
    /\ UNCHANGED <<clientVars, auxVars, snap, copy, plast, ekey>>

TaskRelease(t) ==
    /\ conc.pc[t] = "release"
    /\ conc' = [conc EXCEPT !.lock = NoTask, !.pc[t] = "done"]
    /\ UNCHANGED <<clientVars, auxVars, plug, snap, copy, plast, ekey>>

NextTasks ==
    \/ TaskSetup
    \/ \E t \in Tasks : TaskCall(t)
    \/ \E t \in Tasks : TaskAcquire(t)
    \/ \E t \in Tasks : TaskRemoveOld(t)
    \/ \E t \in Tasks : TaskWrite(t)
    \/ \E t \in Tasks : TaskAddIndex(t)
    \/ \E t \in Tasks : TaskDeleteData(t)
    \/ \E t \in Tasks : TaskDeleteIndex(t)
    \/ \E t \in Tasks : TaskRelease(t)

SpecTasks == InitPlugin /\ [][NextTasks]_vars

\* ------------------------------------------------------------------------
\* Construction of E values and of compound keys
\* ------------------------------------------------------------------------
KeyCall(op, arg, lanes, res) ==
    [op |-> op, arg |-> arg, lanes |-> lanes, res |-> res,
     rebuilt_done |-> FALSE, rebuilt |-> Raised,
     s |-> 0, p1 |-> 0, p2 |-> 0, k1 |-> 0, k2 |-> 0, k1_again |-> 0]

\* E(id_) with a plain integer, in a build where the module's constraints
\* are enforced and in one where they are not.
ERawInt ==
    /\ ekey.op = "none"
    /\ \E v \in RawInts, enforced \in BOOLEAN :
        ekey' = KeyCall("E_int", v, <<>>,
                        IF enforced THEN E_int_constrained(v) ELSE E_int(v))
    /\ UNCHANGED <<clientVars, auxVars, pluginVars>>

\* E(id_) with a tuple or a list of four lanes.
EFromLanes ==
    /\ ekey.op = "none"
    /\ \E t \in LaneTuples : ekey' = KeyCall("E_tuple", 0, t, E_tuple(t))
    /\ UNCHANGED <<clientVars, auxVars, pluginVars>>

EFromInt ==
    /\ ekey.op = "none"
    /\ \E v \in RawInts : ekey' = KeyCall("from_int", v, <<>>, from_int(v))
    /\ UNCHANGED <<clientVars, auxVars, pluginVars>>

\* from_str: uuid5 gives the integer, the string is entered in _kv_store
\* unless the integer is there already, and the E is built.
FromStr(value) ==
    /\ \E id_ \in {uuid5(value)} :
        /\ kv_store' = kv_setdefault(kv_store, id_, value)
        /\ ekey' = KeyCall("from_str", id_, <<>>, from_str(id_))
    /\ UNCHANGED <<clientVars, pluginVars, hcache, hlast, wal, alast>>

EFromStr ==
    /\ ekey.op = "none"
    /\ \E value \in SourceStrings : FromStr(value)

\* E() without an argument: uuid4 gives the integer.
EDefault ==
    /\ ekey.op = "none"
    /\ \E id_ \in UuidInts : ekey' = KeyCall("E_default", id_, <<>>, E_int(id_))
    /\ UNCHANGED <<clientVars, auxVars, pluginVars>>

\* E((e.high, e.high_mid, e.low_mid, e.low)) of the E built last.
ERebuild ==
    /\ ekey.op \in {"E_int", "E_tuple", "from_int", "from_str", "E_default"}
    /\ ekey.res.ok
    /\ ~ekey.rebuilt_done
    /\ ekey' = [ekey EXCEPT !.rebuilt_done = TRUE,
                            !.rebuilt = E_tuple(<<high(ekey.res.val),
                                                  high_mid(ekey.res.val),
                                                  low_mid(ekey.res.val),
                                                  low(ekey.res.val)>>)]
    /\ UNCHANGED <<clientVars, auxVars, pluginVars>>

\* create_compound_key of one subject with two predicates, and once more
\* with the first.
ECompoundKey ==
    /\ ekey.op = "none"
    /\ \E s \in KeySubjects, p1 \in 0 .. (EMod - 1), p2 \in KeyProbes :
        ekey' = [KeyCall("create_compound_key", 0, <<>>, Raised) EXCEPT
                    !.s = s, !.p1 = p1, !.p2 = p2,
                    !.k1 = create_compound_key(s, p1),
                    !.k2 = create_compound_key(s, p2),
                    !.k1_again = create_compound_key(s, p1)]
    /\ UNCHANGED <<clientVars, auxVars, pluginVars>>

NextKeys ==
    \/ ERawInt
    \/ EFromLanes
    \/ EFromInt
    \/ EFromStr
    \/ EDefault
    \/ ERebuild
    \/ ECompoundKey

SpecKeys == Init /\ [][NextKeys]_vars

\* ------------------------------------------------------------------------
\* The reverse lookup of from_str over any number of calls
\* ------------------------------------------------------------------------
FromStrCalls == \E value \in SourceStrings : FromStr(value)

NextStrings == FromStrCalls

SpecStrings == Init /\ [][NextStrings]_vars

\* ------------------------------------------------------------------------
\* Triple hashes
\* ------------------------------------------------------------------------
\* One get_triple_hash call.  evicted tells whether some call so far has
\* dropped an entry from the full cache.
GetTripleHash ==
    /\ \E t \in Triples :
         \E r \in {get_triple_hash(hcache, t)} :
            /\ hcache' = r.cache
            /\ hlast' = [called |-> TRUE, t |-> t, hit |-> r.hit, ret |-> r.result,
                         evicted |-> hlast.evicted
                                     \/ (~r.hit /\ Len(hcache) = CacheMaxSize)]
    /\ UNCHANGED <<clientVars, pluginVars, ekey, wal, alast, kv_store>>

NextHash == GetTripleHash

SpecHash == Init /\ [][NextHash]_vars

\* ------------------------------------------------------------------------
\* POST requests
\* ------------------------------------------------------------------------
\* One request to one of the endpoints; all of them open the same log.
\* sent_before and endpoints are history: the keys of the earlier requests
\* and the endpoints called so far.
PostRequest ==
    /\ alast.n < MaxRequests
    /\ \E endpoint \in Endpoints, key \in HeaderValues, body_id \in BodyIds :
       \E check \in Checks(endpoint) :
         \E r \in {post(wal, endpoint, key, body_id, check)} :
            /\ wal' = r.wal
            /\ alast' = [n |-> alast.n + 1, endpoint |-> endpoint, key |-> key,
                         body_id |-> body_id, check |-> check,
                         status |-> r.status, id |-> r.id, before |-> wal,
                         sent_before |-> alast.sent_before \cup
                                         (IF alast.n = 0 THEN {} ELSE {alast.key}),
                         endpoints |-> alast.endpoints \cup {endpoint}]
    /\ UNCHANGED <<clientVars, pluginVars, ekey, hcache, hlast, kv_store>>

NextApi == PostRequest

SpecApi == Init /\ [][NextApi]_vars

\* ------------------------------------------------------------------------
\* batch_insert_triples of a client whose batch_size has been assigned
\* ------------------------------------------------------------------------
\* self.max_batch_size and self.min_batch_size
max_batch_size == 1024

min_batch_size == 32

\* client.batch_size = v before the calls: a size below min_batch_size that
\* is not a multiple of four, one that is, the default, and a size above
\* max_batch_size.
BatchSizes == {6, 8, DefaultBatchSize, 1028}

\* Numbers of triples: a few, and for a size above the default enough to
\* fill one batch of that size.
SizedCounts(bs) ==
    {0, 1, 2, 3} \cup (IF bs > DefaultBatchSize THEN {(bs \div 4)} ELSE {})

InitAdaptive ==
    /\ store = {}
    /\ inserted = {}
    /\ ncalls = 0
    /\ last = NoCall
    /\ batch_size \in BatchSizes
    /\ blast = NoBatchCall
    /\ retry = NoRetry
    /\ qlast = NoQuery
    /\ plug = Fresh("NumericRangeDS")
    /\ snap = NoSnapshot
    /\ copy = Fresh("NumericRangeDS")
    /\ plast = NoPluginCall
    /\ conc = NoTasks
    /\ ekey = NoKey
    /\ InitAux

\* One batch_insert_triples call; the store fails some of the calls for the
\* first MaxBatches batches.
BatchInsertSized ==
    /\ \E n \in SizedCounts(batch_size) :
         \E failing \in SUBSET {i \in BatchStarts(4 * n, batch_size) :
                                    i < MaxBatches * batch_size} :
           \E r \in {batch_insert_triples(store, batch_size,
                                          TripleList(n, FALSE), failing)} :
                /\ store' = r.store
                /\ blast' = [called |-> TRUE, n |-> n, malformed |-> FALSE,
                             failing |-> failing, raised |-> r.raised,
                             calls |-> r.calls, result |-> r.result]
    /\ UNCHANGED <<pluginVars, ekey, auxVars, inserted, ncalls, last, batch_size,
                   retry, qlast>>

NextAdaptive == BatchInsertSized

SpecAdaptive == InitAdaptive /\ [][NextAdaptive]_vars

\* ------------------------------------------------------------------------
\* Snapshots that come from elsewhere, and set on a restored instance
\* ------------------------------------------------------------------------
\* Saved indexes: lists of at most two (key text, bucket) items.
ForeignIndexes ==
    {<<>>} \cup
    {<<<<str(v), b>>>> : v \in {1, 2}, b \in SUBSET Subjects} \cup
    {<<<<str(v), b>>, <<str(w), c>>>> :
        v \in {1, 2}, w \in {1, 2}, b \in SUBSET Subjects, c \in SUBSET Subjects}

\* Snapshot dicts of class NumericRangeDS with any data section.
ForeignSnapshots ==
    {[plugin_class |-> "NumericRangeDS", config |-> EmptyConfig,
      data |-> [subjects |-> d, range_index |-> ri]] :
        d \in [Subjects -> {None, 1, 2}], ri \in ForeignIndexes}

\* A snapshot dict is received (read from a file, say) instead of taken.
ReceiveSnapshot ==
    /\ snap.plugin_class = "none"
    /\ snap' \in ForeignSnapshots
    /\ UNCHANGED <<clientVars, auxVars, plug, copy, plast, conc, ekey>>

NextRestoreAny ==
    \/ ReceiveSnapshot
    \/ RestoreFresh
    \/ RestoreLive

SpecRestoreAny == InitPlugin /\ [][NextRestoreAny]_vars

\* set on the instance that has just restored a snapshot.
PluginSetRestored ==
    /\ plast.op = "restore_fresh"
    /\ plast.raised = "none"
    /\ \E subject \in Subjects, v \in SetArgs :
        \E out \in {plugin_set(copy, subject, v)} :
            /\ copy' = out.p
            /\ plast' = PluginCall("set_restored", subject, v, 0, 0, out, copy)
    /\ UNCHANGED <<clientVars, auxVars, plug, snap, conc, ekey>>

NextRestoreSet ==
    \/ SnapshotSetup
    \/ TakeSnapshot
    \/ RestoreFresh
    \/ PluginSetRestored

SpecRestoreSet == InitPlugin /\ [][NextRestoreSet]_vars

\* ------------------------------------------------------------------------
\* Properties of insert_triple and of the read paths over the in-memory store
\* ------------------------------------------------------------------------
\* The store entries of the writes of t numbered in I.
Entries(t, I) == {<<Norm(TripleWrite(t, i)[1]), Norm(TripleWrite(t, i)[2])>> : i \in I}

\* C1 as stated: every insert_triple call attempts all four writes, also
\* after one of them failed, and returns False exactly when a write failed.
C1_AllFourAttempted ==
    last.called =>
        /\ last.attempted = 1 .. 4
        /\ (last.ret = FALSE) <=> (last.failAt # 0)

\* C1 amended: insert_triple makes the four writes in source order and stops
\* at the first one that fails (the writes after it are not attempted and
\* leave no entry); it returns False exactly when a write failed.
C1_StopsAtFirstFailure ==
    last.called =>
        /\ last.attempted = (IF last.failAt = 0 THEN 1 .. 4 ELSE 1 .. last.failAt)
        /\ (last.ret = FALSE) <=> (last.failAt # 0)
        /\ store = last.before \cup
                   Entries(last.t, {i \in last.attempted : i # last.failAt})

C1_Witness ==
    /\ last.called
    /\ last.failAt = 2
    /\ last.attempted = {1, 2}
    /\ last.ret = FALSE
    /\ Entries(last.t, {3}) \cap store = {}

\* C2: when a write of insert_triple fails, the call returns False without
\* raising, and the entries of the writes made before the failing one (and
\* everything that was in the store before the call) are still in the store.
C2_NoRollback ==
    (last.called /\ last.failAt # 0) =>
        /\ last.ret = FALSE
        /\ ~last.raised
        /\ last.before \subseteq store
        /\ Entries(last.t, 1 .. (last.failAt - 1)) \subseteq store

\* A failed call that left a non-empty strict subset of the four entries.
C2_Witness ==
    /\ last.called
    /\ last.failAt = 3
    /\ last.ret = FALSE
    /\ Entries(last.t, {1, 2}) \subseteq store
    /\ Entries(last.t, 1 .. 4) \cap store # Entries(last.t, 1 .. 4)

Retrievable(t) ==
    /\ \A lk \in InMemoryLookups(store, create_compound_key(t.s, t.p)) :
          t.o \in Range(query_by_subject_predicate(lk, t.s, t.p))
    /\ \A lk \in InMemoryLookups(store, t.s) :
          t.p \in Range(query_predicates_for_subject(lk, t.s))
    /\ \A lk \in InMemoryLookups(store, create_reverse_key(t.p, t.o)) :
          t.s \in Range(query_subjects_by_object_predicate(lk, t.o, t.p))

\* C3: every triple whose insert_triple returned True is found by all three
\* queries, in every later state (later inserts do not remove it).
C3_RoundTrip == \A t \in inserted : Retrievable(t)

\* Two triples with the same subject and predicate, both still found.
C3_Witness ==
    \E t1 \in inserted, t2 \in inserted :
        /\ t1.s = t2.s /\ t1.p = t2.p /\ t1.o # t2.o
        /\ Retrievable(t1) /\ Retrievable(t2)

\* ------------------------------------------------------------------------
\* Properties of batch_insert_triples
\* ------------------------------------------------------------------------
\* The batch_items of the last batch_insert_triples call.
BlastItems == Expand(TripleList(blast.n, FALSE))

\* C4: with a store whose batch_insert never fails, batch_insert_triples of
\* N triples returns success_count = N and no failures, for every N (no
\* triple, one batch, several batches, a partial last batch).
C4_BatchAccounting ==
    (blast.called /\ ~blast.malformed /\ blast.failing = {}) =>
        blast.result = BatchResult(blast.n, <<>>)

\* Several batches, the last one partial, all counted.
C4_Witness ==
    /\ blast.called /\ ~blast.malformed /\ blast.failing = {}
    /\ blast.n > 2 * (DefaultBatchSize \div 4)
    /\ blast.n % (DefaultBatchSize \div 4) # 0
    /\ Len(blast.calls) >= 3
    /\ blast.result.success_count = blast.n

\* C5: one batch_insert_triples call submits every batch of the 4N items
\* exactly once, in increasing batch_start order, whether or not earlier
\* batches failed; failures holds one {batch_start, error} entry per failed
\* batch, in that order, none for a successful batch; a failing store does
\* not make the call raise.
C5_BatchesIndependent ==
    (blast.called /\ ~blast.malformed) =>
        /\ ~blast.raised
        /\ Len(blast.calls) = Cardinality(BatchStarts(4 * blast.n, batch_size))
        /\ \A k \in DOMAIN blast.calls :
              /\ blast.calls[k].batch_start = (k - 1) * batch_size
              /\ blast.calls[k].ok = (blast.calls[k].batch_start \notin blast.failing)
              /\ Len(blast.calls[k].batch) =
                    (IF k * batch_size <= 4 * blast.n THEN batch_size
                     ELSE 4 * blast.n - (k - 1) * batch_size)
        /\ \A j \in 1 .. (4 * blast.n) :
              blast.calls[((j - 1) \div batch_size) + 1].batch[((j - 1) % batch_size) + 1]
                 = BlastItems[j]
        /\ Len(blast.result.failures) = Cardinality(blast.failing)
        /\ \A k \in DOMAIN blast.result.failures :
              /\ blast.result.failures[k].batch_start \in blast.failing
              /\ \A j \in 1 .. (k - 1) :
                    blast.result.failures[j].batch_start
                       < blast.result.failures[k].batch_start

\* The first batch failed and a later batch was still submitted and stored.
C5_Witness ==
    /\ blast.called /\ ~blast.malformed
    /\ Len(blast.calls) >= 3
    /\ ~blast.calls[1].ok
    /\ blast.calls[3].ok
    /\ Len(blast.result.failures) = 1
    /\ blast.result.failures[1].batch_start = 0

\* ------------------------------------------------------------------------
\* Properties of robust_batch_insert_with_retry
\* ------------------------------------------------------------------------
RetryTriples == TripleList(retry.n, retry.malformed)

\* The store failed its first store_fails batch_insert calls and none after,
\* and that number is below retry_max_attempts.
C6_FailsKThenSucceeds ==
    /\ ~retry.malformed
    /\ retry.fails_first
    /\ retry.store_fails < retry.max_attempts

\* C6: with a store that fails its first K batch_insert calls, K below
\* retry_max_attempts, and succeeds afterwards, the call eventually returns
\* success_count = N and no failures.
C6_EventualSuccess ==
    <>(retry.pc = "done" /\
         (C6_FailsKThenSucceeds => retry.result = BatchResult(retry.n, <<>>)))

\* Two failed submissions, three attempts allowed, several batches.
C6_Witness ==
    /\ retry.pc = "done"
    /\ C6_FailsKThenSucceeds
    /\ retry.store_fails = 2
    /\ retry.nattempts >= 2
    /\ retry.n > DefaultBatchSize \div 4
    /\ retry.result = BatchResult(retry.n, <<>>)

\* C7: with a store whose batch_insert calls all fail and a non-empty list,
\* the call makes exactly retry_max_attempts batch_insert_triples calls and
\* returns success_count = 0 with a non-empty failures list.
C7_AlwaysFailing ==
    (retry.pc = "done" /\ retry.n > 0 /\ retry.store_fails = retry.store_calls) =>
        /\ retry.nattempts = (IF retry.max_attempts > 0 THEN retry.max_attempts ELSE 0)
        /\ retry.result.success_count = 0
        /\ retry.result.failures # <<>>

C7_Witness ==
    /\ retry.pc = "done"
    /\ ~retry.malformed
    /\ retry.n > 2 * (DefaultBatchSize \div 4)
    /\ retry.max_attempts = 3
    /\ retry.nattempts = 3
    /\ retry.store_calls >= 9
    /\ retry.store_fails = retry.store_calls
    /\ retry.result.success_count = 0
    /\ Len(retry.result.failures) >= 3

\* Triples counted by the successful calls of a call log.
RECURSIVE CountedTriples(_)
CountedTriples(calls) ==
    IF calls = <<>> THEN 0
    ELSE (IF Head(calls).ok THEN Len(Head(calls).batch) \div 4 ELSE 0)
         + CountedTriples(Tail(calls))

LastOutcome == retry.outcomes[Len(retry.outcomes)]

Succeeded ==
    /\ retry.nattempts >= 1
    /\ LastOutcome = "ok"
    /\ \A k \in 1 .. (Len(retry.outcomes) - 1) : retry.outcomes[k] # "ok"
    /\ retry.result = retry.att.result
    /\ retry.result.failures = <<>>

PartialFailureExhausted ==
    /\ retry.nattempts >= 1
    /\ retry.nattempts = retry.max_attempts
    /\ LastOutcome = "partial"
    /\ retry.result = retry.att.result
    /\ retry.result.failures # <<>>

ExceptionExhausted ==
    /\ retry.nattempts >= 1
    /\ retry.nattempts = retry.max_attempts
    /\ LastOutcome = "raised"
    /\ retry.last_error # "None"
    /\ retry.result = AllRetriesFailed(retry.last_error)

NoAttemptMade ==
    /\ retry.max_attempts <= 0
    /\ retry.nattempts = 0
    /\ retry.result = AllRetriesFailed("None")

Count(b) == IF b THEN 1 ELSE 0

\* C9 as stated: for any retry_max_attempts the call ends after at most
\* retry_max_attempts attempts in exactly one of succeeded,
\* partial-failure-exhausted and exception-exhausted (the latter carrying the
\* last raised error).
C9_ThreeOutcomes ==
    retry.pc = "done" =>
        /\ retry.nattempts <= retry.max_attempts
        /\ Count(Succeeded) + Count(PartialFailureExhausted)
              + Count(ExceptionExhausted) = 1

\* C9 amended: the call terminates; with retry_max_attempts >= 1 it ends
\* after at most retry_max_attempts attempts in exactly one of the three
\* outcomes; with retry_max_attempts <= 0 it makes no attempt and returns the
\* "All retries failed" record with no error (None) in it.
C9_Terminates ==
    /\ <>(retry.pc = "done")
    /\ [](retry.pc = "done" =>
            /\ Len(retry.outcomes) = retry.nattempts
            /\ IF retry.max_attempts >= 1
               THEN /\ retry.nattempts <= retry.max_attempts
                    /\ Count(Succeeded) + Count(PartialFailureExhausted)
                          + Count(ExceptionExhausted) = 1
               ELSE NoAttemptMade)

\* Three attempts, each with a failed batch: the last result is returned.
C9_Witness ==
    /\ retry.pc = "done"
    /\ retry.max_attempts = 3
    /\ retry.nattempts = 3
    /\ PartialFailureExhausted
    /\ retry.sleeps = <<1, 2>>

\* ------------------------------------------------------------------------
\* Properties of the read paths over an arbitrary store
\* ------------------------------------------------------------------------
\* An entry the client can turn into an E, and the E it becomes.
Convertible(r) == r.kind = "E" \/ E_new(r).ok

AsE(r) == IF r.kind = "E" THEN r.val ELSE E_new(r).val

\* The convertible entries of a lookup result as E values, in lookup order.
RECURSIVE ConvertibleEntries(_)
ConvertibleEntries(results) ==
    IF results = <<>> THEN <<>>
    ELSE IF Convertible(Head(results))
    THEN <<AsE(Head(results))>> \o ConvertibleEntries(Tail(results))
    ELSE ConvertibleEntries(Tail(results))

\* C10: for any list the store's lookup returns, each query method returns
\* exactly the convertible entries as E values in lookup order; an
\* unconvertible entry is dropped alone and never takes a convertible entry
\* of the same lookup with it.
C10_DropsEntriesIndividually ==
    (qlast.method # "none" /\ qlast.reply.ok) =>
        qlast.out = ConvertibleEntries(qlast.reply.results)

\* ------------------------------------------------------------------------
\* Properties of the numeric range plugin
\* ------------------------------------------------------------------------
\* The primary map and the range index of p agree: every subject of the map
\* is in the bucket of its value, every bucket member has the bucket's key
\* as its value, and no bucket is empty.
Bijection(p) ==
    /\ \A s \in Subjects :
          p.data[s] # None =>
              p.data[s] \in DOMAIN p.range_index /\ s \in p.range_index[p.data[s]]
    /\ \A k \in DOMAIN p.range_index :
          /\ p.range_index[k] # {}
          /\ \A s \in p.range_index[k] : p.data[s] = k

\* C11: after any sequence of set and delete calls on a NumericRangeDS,
\* rejected ones included, the primary map and the range index are in
\* bijection, and find_subjects(v) is exactly the set of the subjects whose
\* get() is v.
C11_Bijection ==
    plug.cls = "NumericRangeDS" =>
        /\ Bijection(plug)
        /\ \A v \in Values :
              find_subjects(plug, v).ret = {s \in Subjects : get(plug, s) = v}

\* A set has moved a subject from a bucket that it shared with the other
\* subject to another value.
C11_Witness ==
    /\ plug.cls = "NumericRangeDS"
    /\ plast.op = "set"
    /\ plast.raised = "none"
    /\ plast.before.data[plast.subject] \notin {None, plast.arg}
    /\ \E s \in Subjects \ {plast.subject} :
          plast.before.data[s] = plast.before.data[plast.subject]

\* C12: find_subjects_in_range(lo, hi) with lo <= hi returns exactly the
\* subjects whose value v has lo <= v <= hi, each of them once, and with
\* lo > hi it raises ValueError.
C12_RangeQuery ==
    (plast.op = "find_subjects_in_range") =>
        IF plast.lo > plast.hi
        THEN plast.raised = "ValueError"
        ELSE /\ plast.raised = "none"
             /\ \A s \in Subjects :
                   plast.counts[s] =
                       IF /\ get(plug, s) # None
                          /\ plast.lo <= get(plug, s)
                          /\ get(plug, s) <= plast.hi
                       THEN 1 ELSE 0

\* A range query with lo < hi has returned a subject whose value is hi and
\* has left out a subject whose value is outside the range.
C12_Witness ==
    /\ plast.op = "find_subjects_in_range"
    /\ plast.lo < plast.hi
    /\ \E s \in Subjects : get(plug, s) = plast.hi /\ plast.counts[s] = 1
    /\ \E s \in Subjects : get(plug, s) # None /\ plast.counts[s] = 0

\* The value v is inside the bounds of p, the ends included.
InBounds(p, v) ==
    /\ p.min_value # None => p.min_value <= v
    /\ p.max_value # None => v <= p.max_value

\* C13: NumericRangeDS.set raises TypeError for a value that is not a
\* number and ValueError for a number outside the configured [min_value,
\* max_value]; a number inside it, the two ends included, is stored; a
\* rejected set leaves the primary map and the range index as they were.
C13_SetValidation ==
    (plast.op = "set" /\ plug.cls = "NumericRangeDS") =>
        /\ plast.arg = NotANumber => plast.raised = "TypeError"
        /\ (plast.arg # NotANumber /\ plast.before.configured) =>
              IF InBounds(plast.before, plast.arg)
              THEN plast.raised = "none" /\ get(plug, plast.subject) = plast.arg
              ELSE plast.raised = "ValueError"
        /\ plast.raised # "none" =>
              /\ plug.data = plast.before.data
              /\ plug.range_index = plast.before.range_index

\* A set of a value outside the configured range was rejected on an
\* instance that holds subjects.
C13_Witness ==
    /\ plug.cls = "NumericRangeDS"
    /\ plast.op = "set"
    /\ plast.raised = "ValueError"
    /\ plast.before.min_value # None
    /\ \E s \in Subjects : plast.before.data[s] # None

\* ------------------------------------------------------------------------
\* Properties of snapshot and restore_snapshot
\* ------------------------------------------------------------------------
\* p and q give the same answers to get, to find_subjects and to the
\* metrics of health_check, and have the same config.
SameAnswers(p, q) ==
    /\ \A s \in Subjects : get(p, s) = get(q, s)
    /\ \A v \in Values : find_subjects(p, v).ret = find_subjects(q, v).ret
    /\ p.cls = "NumericRangeDS" =>
          health_check(p).metrics = health_check(q).metrics
    /\ p.config = q.config

\* C14 as stated: when the snapshot of the live instance has been restored
\* into a new instance of its class, the new instance answers get,
\* find_subjects and the health_check metrics as the live one does and has
\* its config.
C14_SnapshotFidelity ==
    (/\ plast.op = "restore_fresh"
     /\ plast.raised = "none"
     /\ snap.plugin_class = plug.cls
     /\ snap = snapshot(plug)) => SameAnswers(plug, copy)

\* C15: restore_snapshot on an instance whose class name is not the
\* snapshot's plugin_class raises ValueError and leaves the instance, its
\* config, primary map and range index, as it was.
C15_MismatchRejected ==
    /\ (plast.op = "restore_live" /\ snap.plugin_class # plug.cls) =>
          plast.raised = "ValueError" /\ plug = plast.before
    /\ (plast.op = "restore_fresh" /\ snap.plugin_class # copy.cls) =>
          plast.raised = "ValueError" /\ copy = plast.before

\* The snapshot of an instance of the other class was refused by a live
\* instance that has a configuration and holds a subject.
C15_Witness ==
    /\ plast.op = "restore_live"
    /\ plast.raised = "ValueError"
    /\ snap.plugin_class # plug.cls
    /\ plug.config # EmptyConfig
    /\ \E s \in Subjects : plug.data[s] # None

\* ------------------------------------------------------------------------
\* Properties of concurrent set and delete tasks
\* ------------------------------------------------------------------------
\* Task t is between taking the lock and giving it back.
InMutation(t) ==
    conc.pc[t] \in {"remove_old", "write", "add_index", "delete_data",
                    "delete_index", "release"}

\* C16: set and delete of one instance take the same lock and hold it from
\* the first read to the last write, so at most one task is inside a
\* mutation at a time; and whenever the lock is free the primary map and
\* the range index are in bijection.  A reader runs only while every other
\* task waits at an await, and the only await of set and delete is the
\* lock acquisition, so a reader sees the instance only with the lock free.
C16_OneLock ==
    /\ \A t \in Tasks : InMutation(t) => conc.lock = t
    /\ Cardinality({t \in Tasks : InMutation(t)}) <= 1
    /\ (conc.lock = NoTask /\ plug.cls = "NumericRangeDS") => Bijection(plug)

\* A task is in the middle of set, with the map and the index out of step,
\* while another task waits for the lock.
C16_Witness ==
    \E t \in Tasks, u \in Tasks :
        /\ conc.pc[t] = "add_index"
        /\ conc.pc[u] = "acquire"
        /\ ~Bijection(plug)

AllDone == \A t \in Tasks : conc.pc[t] = "done"

\* The positions in conc.order of the tasks that wrote subject s.
Touches(s) == {i \in 1 .. Len(conc.order) : conc.subject[conc.order[i]] = s}

\* What the task that took the lock last for s leaves as the value of s;
\* None when no task took the lock for s.
LastWritten(s) ==
    IF Touches(s) = {} THEN None
    ELSE LET i == CHOOSE j \in Touches(s) : \A k \in Touches(s) : k <= j
             t == conc.order[i]
         IN  IF conc.op[t] = "set" THEN conc.v[t] ELSE None

\* C17: when concurrent tasks on one instance have all completed, get of
\* every subject is the value of the set that took the lock last for that
\* subject (None after a delete), and a subject that no task wrote is as
\* it was.
C17_NoLostWrite ==
    AllDone => \A s \in Subjects : get(plug, s) = LastWritten(s)

\* Two tasks have set different values for one subject and both are done.
C17_Witness ==
    /\ AllDone
    /\ \E t \in Tasks, u \in Tasks :
          /\ t # u
          /\ conc.op[t] = "set" /\ conc.op[u] = "set"
          /\ conc.subject[t] = conc.subject[u]
          /\ conc.v[t] # conc.v[u]
          /\ conc.raised[t] = "none" /\ conc.raised[u] = "none"

\* ------------------------------------------------------------------------
\* Properties of E and of the compound key
\* ------------------------------------------------------------------------
ConstructorCalls == {"E_int", "E_tuple", "from_int", "from_str", "E_default"}

InRange(v) == 0 <= v /\ v < EMod

\* C18: for every integer v of the 256-bit range, the E built from the four
\* lanes of E(v) equals v, and every lane is at least 0 and below 2^64.
C18_LaneRoundTrip ==
    (ekey.rebuilt_done /\ InRange(ekey.res.val)) =>
        /\ ekey.rebuilt = Built(ekey.res.val)
        /\ \A lane \in {high(ekey.res.val), high_mid(ekey.res.val),
                         low_mid(ekey.res.val), low(ekey.res.val)} :
              0 <= lane /\ lane < LaneMod

\* An E whose four lanes are all non-zero and not all equal was rebuilt
\* from its lanes.
C18_Witness ==
    /\ ekey.rebuilt_done
    /\ InRange(ekey.res.val)
    /\ high(ekey.res.val) # 0 /\ high_mid(ekey.res.val) # 0
    /\ low_mid(ekey.res.val) # 0 /\ low(ekey.res.val) # 0
    /\ high(ekey.res.val) # low(ekey.res.val)
    /\ high_mid(ekey.res.val) # low_mid(ekey.res.val)

\* C19 as stated: every E that a constructor gives is at least 0 and below
\* 2^256, and E or from_int with an integer outside that range raises.
C19_AlwaysInRange ==
    (ekey.op \in ConstructorCalls) =>
        /\ ekey.res.ok => InRange(ekey.res.val)
        /\ (ekey.op \in {"E_int", "from_int"} /\ ~InRange(ekey.arg)) =>
              ~ekey.res.ok

\* C20: create_compound_key(s, p) gives the same key on every call, and
\* for one subject two different predicates give different keys.
C20_CompoundKeySensitive ==
    (ekey.op = "create_compound_key") =>
        /\ ekey.k1 = ekey.k1_again
        /\ ekey.p1 # ekey.p2 => ekey.k1 # ekey.k2

\* Keys were made for a subject with two predicates that differ in the low
\* lane only.
C20_Witness ==
    /\ ekey.op = "create_compound_key"
    /\ ekey.s # 0
    /\ ekey.p1 # ekey.p2
    /\ ekey.p1 \div LaneMod = ekey.p2 \div LaneMod

\* ------------------------------------------------------------------------
\* Properties of the triple hash cache
\* ------------------------------------------------------------------------
HexValue(c) == CHOOSE d \in 0 .. 15 : HexChars[d + 1] = c

\* The number a hex string denotes, most significant digit first.
RECURSIVE HexNumber(_)
HexNumber(hx) ==
    IF hx = <<>> THEN 0
    ELSE HexValue(hx[Len(hx)]) + 16 * HexNumber(SubSeq(hx, 1, Len(hx) - 1))

\* C21: every get_triple_hash call, hit or miss and whatever has been
\* evicted before it, returns the (hex, E) pair that a computation without
\* the cache gives for the 12 lanes of the triple; the hex string has one
\* character per 4 bits of the digest (64 in the program) and the E is the
\* digest read as a big-endian integer.  Every entry the cache holds is the
\* value computed for its key.
C21_CacheTransparent ==
    /\ hlast.called =>
        /\ hlast.ret = compute_hash_from_tuple(tuple_from_triple(hlast.t))
        /\ Len(hlast.ret.hexdig) = LaneBits
        /\ hlast.ret.e.ok
        /\ hlast.ret.e.val = HexNumber(hlast.ret.hexdig)
    /\ \A i \in DOMAIN hcache :
        hcache[i].result = compute_hash_from_tuple(hcache[i].key)

\* A hit after the cache has been full and has dropped an entry.
C21_Witness ==
    /\ hlast.called
    /\ hlast.hit
    /\ hlast.evicted
    /\ Len(hcache) = CacheMaxSize

\* ------------------------------------------------------------------------
\* Idempotence of set
\* ------------------------------------------------------------------------
\* C22: set is idempotent for both plugin classes.  A set call that finds
\* the subject already holding the value it is given leaves the instance as
\* it was (the map, the buckets of the index, the health_check metrics), and
\* after any set call that returned, the same call once more gives the same
\* instance.
C22_SetIdempotent ==
    /\ (plast.op = "set" /\ plast.before.data[plast.subject] = plast.arg) =>
        /\ plug.data = plast.before.data
        /\ plug.range_index = plast.before.range_index
        /\ health_check(plug) = health_check(plast.before)
        /\ plug = plast.before
    /\ (plast.op = "set" /\ plast.raised = "none") =>
        /\ plugin_set(plug, plast.subject, plast.arg).raised = "none"
        /\ plugin_set(plug, plast.subject, plast.arg).p = plug

\* A second set of the value a subject holds, accepted by a NumericRangeDS
\* whose bucket for the value holds another subject too.
C22_Witness ==
    /\ plast.op = "set"
    /\ plast.raised = "none"
    /\ plug.cls = "NumericRangeDS"
    /\ plast.before.data[plast.subject] = plast.arg
    /\ Cardinality(plug.range_index[plast.arg]) = 2

\* The same for a DefaultDataStructure.
C22_WitnessDefault ==
    /\ plast.op = "set"
    /\ plast.raised = "none"
    /\ plug.cls = "DefaultDataStructure"
    /\ plast.before.data[plast.subject] = plast.arg

\* ------------------------------------------------------------------------
\* Batch sizes
\* ------------------------------------------------------------------------
\* C23 as stated: whatever value batch_size has been given, the size that
\* batch_insert_triples partitions the items with lies between
\* min_batch_size and max_batch_size: every batch but the last holds at
\* least min_batch_size items, and no batch holds more than max_batch_size
\* items or more than the batch size.
C23_Clamped ==
    (blast.called /\ ~blast.raised) =>
        /\ min_batch_size <= batch_size
        /\ batch_size <= max_batch_size
        /\ \A j \in DOMAIN blast.calls :
            /\ Len(blast.calls[j].batch) <= batch_size
            /\ Len(blast.calls[j].batch) <= max_batch_size
            /\ j < Len(blast.calls) => Len(blast.calls[j].batch) >= min_batch_size

\* ------------------------------------------------------------------------
\* Idempotency keys
\* ------------------------------------------------------------------------
\* The positions of the records of w that hold the key.
KeyRecords(w, key) == {i \in DOMAIN w : w[i].idempotency_key = key}

FirstKeyRecord(w, key) ==
    w[CHOOSE i \in KeyRecords(w, key) : \A j \in KeyRecords(w, key) : i <= j]

OneRecordPerKey ==
    \A i \in DOMAIN wal, j \in DOMAIN wal :
        (truthy(wal[i].idempotency_key)
         /\ wal[i].idempotency_key = wal[j].idempotency_key) => i = j

\* C24 as stated, for requests that all go to one endpoint: no two records
\* hold the same non-empty key; the first request with a key is accepted
\* and logged; every later request with that key returns 'duplicate' with
\* the id of the first record and leaves the log as it was.
C24_FirstLoggedLaterDuplicate ==
    /\ OneRecordPerKey
    /\ (alast.n > 0 /\ truthy(alast.key) /\ Cardinality(alast.endpoints) = 1) =>
        IF alast.key \in alast.sent_before
        THEN /\ alast.status = "duplicate"
             /\ wal = alast.before
             /\ KeyRecords(wal, alast.key) # {}
             /\ alast.id = FirstKeyRecord(wal, alast.key).id
        ELSE /\ alast.status = "accepted"
             /\ Len(wal) = Len(alast.before) + 1
             /\ wal[Len(wal)].idempotency_key = alast.key

\* C24 amended: no two records hold the same non-empty key.  A request with
\* a non-empty key that no record holds is logged and answered 'accepted'
\* exactly when its body passes validation; a rejected request leaves the
\* log as it was, so the key stays unused.  A request with a key that a
\* record holds is answered 'duplicate' and leaves the log as it was; the id
\* in the answer is the id of that record if the same endpoint logged it,
\* and None if another endpoint did.
C24_OneRecordPerLoggedKey ==
    /\ OneRecordPerKey
    /\ (alast.n > 0 /\ truthy(alast.key)) =>
        IF KeyRecords(alast.before, alast.key) # {}
        THEN /\ alast.status = "duplicate"
             /\ wal = alast.before
             /\ alast.id =
                  IF FirstKeyRecord(wal, alast.key).type = RecordType(alast.endpoint)
                  THEN FirstKeyRecord(wal, alast.key).id
                  ELSE NoneStr
        ELSE IF alast.status = "accepted"
        THEN /\ alast.check = "valid"
             /\ alast.id = alast.body_id
             /\ wal = Append(alast.before,
                             [type |-> RecordType(alast.endpoint),
                              id_field |-> IdField(alast.endpoint),
                              id |-> alast.body_id,
                              idempotency_key |-> alast.key])
        ELSE /\ alast.status \in {"400", "500"}
             /\ alast.check # "valid"
             /\ wal = alast.before

\* A request repeats the key of a logged record of the same endpoint with
\* another body, and gets the id of the logged record.
C24_Witness ==
    /\ alast.n > 1
    /\ truthy(alast.key)
    /\ alast.status = "duplicate"
    /\ alast.id \in BodyIds
    /\ alast.id # alast.body_id
    /\ wal = alast.before

\* ------------------------------------------------------------------------
\* The reverse lookup of from_str
\* ------------------------------------------------------------------------
\* A capacity for the lookup.  Whatever the capacity is, one distinct string
\* more than it tells a bounded lookup from an unbounded one.
KvCapacity == MaxStrings - 1

\* C25 as stated: however many distinct strings from_str has been given,
\* the reverse lookup holds no more entries than its capacity.
C25_Bounded == Cardinality(DOMAIN kv_store) <= KvCapacity

\* ------------------------------------------------------------------------
\* Sleeps of robust_batch_insert_with_retry
\* ------------------------------------------------------------------------
\* C26: the caller sleeps only between attempts.  The i-th sleep follows the
\* attempt with index i - 1, which did not succeed and was not the last
\* allowed one, and lasts retry_backoff_factor ^ (i - 1) exactly; while the
\* loop runs there is one sleep per attempt made, and a call that returned
\* after m >= 1 attempts has slept m - 1 times (a call that made no attempt
\* has not slept).
C26_SleepsBetweenAttempts ==
    /\ \A i \in DOMAIN retry.sleeps :
        /\ retry.sleeps[i] = BackoffFactor ^ (i - 1)
        /\ i <= Len(retry.outcomes)
        /\ retry.outcomes[i] # "ok"
        /\ i < retry.max_attempts
    /\ Len(retry.outcomes) = retry.nattempts
    /\ retry.pc = "loop" => Len(retry.sleeps) = retry.nattempts
    /\ (retry.pc = "done" /\ retry.nattempts >= 1) =>
            Len(retry.sleeps) = retry.nattempts - 1
    /\ (retry.pc = "done" /\ retry.nattempts = 0) => retry.sleeps = <<>>

\* A call that used all of three or more attempts, the last of them failing
\* too, and one that stopped early on a success after a sleep.
C26_Witness ==
    /\ retry.pc = "done"
    /\ retry.nattempts >= 3
    /\ retry.nattempts = retry.max_attempts
    /\ retry.outcomes[retry.nattempts] # "ok"
    /\ Len(retry.sleeps) = retry.nattempts - 1
    /\ retry.sleeps[2] = BackoffFactor

C26_WitnessEarly ==
    /\ retry.pc = "done"
    /\ retry.nattempts = 2
    /\ retry.max_attempts > 2
    /\ retry.outcomes[2] = "ok"
    /\ retry.sleeps = <<1>>

\* ------------------------------------------------------------------------
\* success_count and whole triples
\* ------------------------------------------------------------------------
\* The store calls of the last batch_insert_triples call that hold the item
\* at position q of batch_items (positions count from 1).
CallsOf(q) ==
    {j \in DOMAIN blast.calls :
        /\ blast.calls[j].batch_start < q
        /\ q <= blast.calls[j].batch_start + Len(blast.calls[j].batch)}

\* The triples all four of whose items went to the store in a successful
\* call, and those with an item in a failed call.
WholeTriples ==
    {k \in 1 .. blast.n :
        \A q \in (4 * k - 3) .. (4 * k) : \E j \in CallsOf(q) : blast.calls[j].ok}

FailedTriples ==
    {k \in 1 .. blast.n :
        \E q \in (4 * k - 3) .. (4 * k) : \E j \in CallsOf(q) : ~blast.calls[j].ok}

\* Every batch starts at the first item of a triple and ends at the last
\* item of one.
NoStraddle ==
    \A j \in DOMAIN blast.calls :
        /\ blast.calls[j].batch_start % 4 = 0
        /\ Len(blast.calls[j].batch) % 4 = 0

WholeTripleAccounting ==
    /\ NoStraddle
    /\ blast.result.success_count = Cardinality(WholeTriples)
    /\ blast.result.success_count + Cardinality(FailedTriples) = blast.n

OnlySuccessfulInserts == store = UNION {Entries(t, 1 .. 4) : t \in inserted}

\* C29 as stated: after successful insert_triple calls only, every entity
\* that query_by_subject_predicate(s, p) returns is the object of an
\* inserted triple with subject s and predicate p.
C29_OnlyMatchingObjects ==
    OnlySuccessfulInserts =>
        \A s \in Entities, p \in Entities :
            \A lk \in InMemoryLookups(store, create_compound_key(s, p)) :
                \A e \in Range(query_by_subject_predicate(lk, s, p)) :
                    \E t \in inserted : t.s = s /\ t.p = p /\ t.o = e

\* ------------------------------------------------------------------------
\* The instance after restore_snapshot
\* ------------------------------------------------------------------------
\* The instance that the last restore_snapshot call was made on.
Restored == IF plast.op = "restore_fresh" THEN copy ELSE plug

\* C28 as stated: after restore_snapshot of a snapshot of the matching
\* class, whatever its data section holds, the map and the index of the
\* NumericRangeDS are in bijection.
C28_RestoreBijection ==
    (/\ plast.op \in {"restore_fresh", "restore_live"}
     /\ plast.raised = "none"
     /\ Restored.cls = "NumericRangeDS") =>
        /\ \A s \in Subjects :
              Restored.data[s] # None =>
                  /\ Restored.data[s] \in DOMAIN Restored.range_index
                  /\ s \in Restored.range_index[Restored.data[s]]
        /\ \A k \in DOMAIN Restored.range_index :
              \A s \in Restored.range_index[k] : Restored.data[s] = k

\* C30 as stated: a new NumericRangeDS that restored the snapshot of the
\* configured live instance answers set as the live instance would: it
\* accepts a value when the live instance accepts it and raises ValueError
\* when the live instance does.
C30_SameBoundsAfterRestore ==
    (/\ plast.op = "set_restored"
     /\ plast.before.cls = "NumericRangeDS"
     /\ plug.cls = "NumericRangeDS"
     /\ plug.configured
     /\ snap = snapshot(plug)
     /\ IsNumeric(plast.arg)) =>
        plast.raised = plugin_set(plug, plast.subject, plast.arg).raised

====
